---- MODULE Spec2Model ----
(***************************************************************************)
(* Golib rules / capture engine (golib/model/rules.py, RuleUnsafe).        *)
(*                                                                         *)
(* The engine holds a committed state (stones, deleted, history) and a     *)
(* buffer (stones_buff, deleted_buff, history_buff).  put / remove work on *)
(* the buffer, confirm promotes it, reset copies the committed state back. *)
(*                                                                         *)
(* Python object identity is part of the model where the code depends on   *)
(* it:                                                                     *)
(*  - history lists hold references to Move objects; list(self.history)    *)
(*    is a shallow copy, so both lists point to the same Move objects.     *)
(*    Moves live in `heap`, the lists hold indices into it.                *)
(*  - confirm() assigns the buffer lists themselves to the committed       *)
(*    attributes; until the next reset() both names denote one object.     *)
(*    `shared` records that.                                               *)
(***************************************************************************)
EXTENDS Integers, Sequences, FiniteSets, TLC

\* ---------------------------------------------------------------- bounds
gsize == 3          \* board size of the model (golib_conf.gsize is 19)
MaxHist == 3        \* put is offered while the history it starts from is shorter
SeqMaxHist == 4     \* the same, in SpecSeq
MaxOffSeq == 1      \* out-of-sequence calls offered in one run (see InSequence)
MaxPlay == 5        \* moves of a game in SpecRules
KoMaxPlay == 8      \* moves of a game in SpecKo
MaxThreadHist == 2  \* a thread calls put while the committed history is shorter
MaxLockedHist == 3  \* the same, for the threads of SpecLocked
MaxNodes == 3       \* nodes of a record when it is opened
MaxKifuOps == 3     \* append / insert / delete calls on a record
MaxFlagNodes == 1   \* nodes of a record when it is opened, in SpecFlag
MaxFlagOps == 2     \* calls that change a record, in SpecFlag
MaxPieces == 6      \* pieces of a text fed to the parser
KoEditMaxPlay == 6  \* moves of a game in SpecKoEdit
MaxKoRemoves == 1   \* remove calls in one run of SpecKoEdit
MaxDataStones == 4  \* stones on a grid given to _data, in SpecData
MaxFilePieces == 3  \* pieces of the text of a file a record is created from
MaxCtlMoves == 2    \* moves of the record of the controller

\* ---------------------------------------------------------------- colours
B == "B"
W == "W"
E == "E"

Rows == 0 .. (gsize - 1)

\* ---------------------------------------------------------------- moves
\* Move("sgf", (color, '-', '-')) : ord('-') - 97
PassCoord == 45 - 97

Mv(color, x, y, number) == [color |-> color, x |-> x, y |-> y, number |-> number]

\* Move.get_coord("sgf"), as character codes
get_coord_sgf(move) == << move.x + 97, move.y + 97 >>

\* Move.__eq__ : the number is not compared
MoveEq(m, o) == m.color = o.color /\ m.x = o.x /\ m.y = o.y

\* Move("tk", (enem_color, k, l)) : number defaults to -1
Stone(color, k, l) == Mv(color, k, l, -1)

enemy_of(color) == IF color = B THEN W ELSE B

\* ---------------------------------------------------------------- touch
TouchDeltas == << <<-1, 0>>, <<1, 0>>, <<0, 1>>, <<0, -1>> >>

touch(x, y) ==
    LET cand == [k \in 1 .. 4 |-> << x + TouchDeltas[k][1], y + TouchDeltas[k][2] >>]
    IN  SelectSeq(cand, LAMBDA p : p[1] \in Rows /\ p[2] \in Rows)

InSeq(e, s) == \E k \in 1 .. Len(s) : s[k] = e

\* ---------------------------------------------------------------- _data
\* Depth-first traversal with the two accumulators of the code; the result
\* is [group |-> sequence of cells, libs |-> sequence of empty cells].
RECURSIVE DataVisit(_, _, _, _)
RECURSIVE DataLoop(_, _, _, _, _)

\* the loop of _data without the test `(x, y) not in _libs`: an empty
\* neighbour is counted once for every stone of the group it touches
RECURSIVE DataLoopCountingEach(_, _, _, _, _)
DataLoopCountingEach(g, color, nbrs, k, acc) ==
    IF k > Len(nbrs) THEN acc
    ELSE LET p == nbrs[k]
             neighcolor == g[p[1]][p[2]]
             acc1 == IF neighcolor = E
                     THEN [acc EXCEPT !.libs = Append(@, p)]
                     ELSE IF neighcolor = color
                          THEN DataVisit(g, p[1], p[2], acc)
                          ELSE acc
         IN  DataLoopCountingEach(g, color, nbrs, k + 1, acc1)

\* for x, y in touch(x, y): ... (the loop of _data)
DataLoop(g, color, nbrs, k, acc) ==
    IF k > Len(nbrs) THEN acc
    ELSE LET p == nbrs[k]
             neighcolor == g[p[1]][p[2]]
             acc1 == IF neighcolor = E
                     THEN IF InSeq(p, acc.libs) THEN acc
                          ELSE [acc EXCEPT !.libs = Append(@, p)]
                     ELSE IF neighcolor = color
                          THEN DataVisit(g, p[1], p[2], acc)
                          ELSE acc
         IN  DataLoop(g, color, nbrs, k + 1, acc1)

DataVisit(g, x, y, acc) ==
    IF InSeq(<<x, y>>, acc.group) THEN acc
    ELSE DataLoop(g, g[x][y], touch(x, y), 1,
                  [acc EXCEPT !.group = Append(@, <<x, y>>)])

\* _data returning the stone at (x, y) alone as the group
dataLoneStone(g, x, y) ==
    [group |-> << <<x, y>> >>,
     nblibs |-> Len(DataVisit(g, x, y, [group |-> <<>>, libs |-> <<>>]).libs)]

\* return _group, len(_libs)
DataResult(acc) == [group |-> acc.group, nblibs |-> Len(acc.libs)]

data(g, x, y) == DataResult(DataVisit(g, x, y, [group |-> <<>>, libs |-> <<>>]))

\* ---------------------------------------------------------------- buffers
\* While an operation runs, the buffer is the record
\*   [g |-> stones_buff, d |-> deleted_buff, h |-> history_buff,
\*    heap |-> the Move objects, err |-> the exception raised so far,
\*    at |-> the history index _forward_from was at when it was raised
\*           (0 when it was raised elsewhere)].
\* An operation that finds err set does nothing more (the exception
\* propagates).
NoErr == "none"

EmptyGrid == [x \in Rows |-> [y \in Rows |-> E]]

SetCell(g, x, y, c) == [g EXCEPT ![x][y] = c]

\* for k, l in group: deleted.append(Move("tk", (enem_color, k, l)));
\*                    self.stones_buff[k][l] = E
RECURSIVE KillGroup(_, _, _, _)
KillGroup(st, group, k, enem_color) ==
    IF k > Len(group) THEN st
    ELSE KillGroup([st EXCEPT !.g = SetCell(@, group[k][1], group[k][2], E),
                              !.deleted = Append(@, Stone(enem_color, group[k][1], group[k][2])),
                              !.safe = TRUE],
                   group, k + 1, enem_color)

\* if nblibs == 0: kill the group (r is what _data returned)
KillIfDead(st, r, enem_color) ==
    IF r.nblibs = 0 THEN KillGroup(st, r.group, 1, enem_color) ELSE st

\* for row, col in touch(move.x, move.y): ... (the capture loop of _append)
RECURSIVE CaptureLoop(_, _, _, _)
CaptureLoop(st, nbrs, k, enem_color) ==
    IF k > Len(nbrs) THEN st
    ELSE CaptureLoop(IF st.g[nbrs[k][1]][nbrs[k][2]] = enem_color
                     THEN KillIfDead(st, data(st.g, nbrs[k][1], nbrs[k][2]), enem_color)
                     ELSE st,
                     nbrs, k + 1, enem_color)

\* a Ko test comparing the move with the stone it has just captured
KoCheckThisEntry(d, move) ==
    /\ 3 < Len(d)
    /\ Len(d[Len(d)]) = 1
    /\ Len(d[Len(d) - 1]) = 1
    /\ MoveEq(move, d[Len(d)][1])

\* a Ko test consulting every earlier capture entry
KoCheckAnyEntry(d, move) ==
    /\ 3 < Len(d)
    /\ Len(d[Len(d)]) = 1
    /\ \E j \in 1 .. Len(d) - 1 : Len(d[j]) = 1 /\ MoveEq(move, d[j][1])

\* the Ko test of _append, on the capture log after this move's entry
KoCheck(d, move) ==
    /\ 3 < Len(d)
    /\ Len(d[Len(d)]) = 1
    /\ Len(d[Len(d) - 1]) = 1
    /\ MoveEq(move, d[Len(d) - 1][1])

\* a Suicide test counting the free neighbours of the stone, not the
\* liberties of its group
SuicideCheckStoneOnly(g, move, safe) ==
    /\ ~safe
    /\ \A k \in 1 .. Len(touch(move.x, move.y)) :
          g[touch(move.x, move.y)[k][1]][touch(move.x, move.y)[k][2]] # E

\* the Suicide test of _append
SuicideCheck(g, move, safe) ==
    /\ ~safe
    /\ data(g, move.x, move.y).nblibs = 0

\* _append after the capture loop, st being what the loop left: the grid,
\* this move's capture entry and the flag `safe`.  On Ko and Suicide the
\* stone and the capture entry are already in the buffer when raisese is
\* called.
AppendChecks(b, move, st) ==
    [b EXCEPT !.g = st.g,
              !.d = Append(@, st.deleted),
              !.err = IF KoCheck(Append(b.d, st.deleted), move) THEN "Ko"
                      ELSE IF SuicideCheck(st.g, move, st.safe) THEN "Suicide"
                      ELSE NoErr]

\* RuleUnsafe._append
append(b, move) ==
    IF b.err # NoErr THEN b
    ELSE IF get_coord_sgf(move) # <<45, 45>>
    THEN IF b.g[move.x][move.y] = E
         THEN AppendChecks(b, move,
                           CaptureLoop([g |-> SetCell(b.g, move.x, move.y, move.color),
                                        deleted |-> <<>>, safe |-> FALSE],
                                       touch(move.x, move.y), 1, enemy_of(move.color)))
         ELSE [b EXCEPT !.err = "Occupied"]
    ELSE [b EXCEPT !.d = Append(@, <<>>)]

\* for mv in captured: self.stones_buff[mv.x][mv.y] = mv.color
RECURSIVE Restore(_, _, _)
Restore(g, captured, k) ==
    IF k > Len(captured) THEN g
    ELSE Restore(SetCell(g, captured[k].x, captured[k].y, captured[k].color),
                 captured, k + 1)

Front(s) == SubSeq(s, 1, Len(s) - 1)

\* RuleUnsafe._pop.  list.pop() on an empty list raises IndexError.
pop(b, move) ==
    IF b.err # NoErr THEN b
    ELSE IF get_coord_sgf(move) # <<45, 45>>
    THEN IF b.g[move.x][move.y] = move.color
         THEN IF Len(b.d) = 0 THEN [b EXCEPT !.g = SetCell(@, move.x, move.y, E),
                                             !.err = "IndexError"]
              ELSE [b EXCEPT !.g = Restore(SetCell(@, move.x, move.y, E),
                                           b.d[Len(b.d)], 1),
                             !.d = Front(@)]
         ELSE [b EXCEPT !.err = IF b.g[move.x][move.y] = E
                                THEN "Empty" ELSE "Wrong Color."]
    ELSE IF Len(b.d) = 0 THEN [b EXCEPT !.err = "IndexError"]
         ELSE [b EXCEPT !.d = Front(@)]

\* RuleUnsafe._rewind_to: i = -1, -2, ... indexes history_buff from its end
RECURSIVE rewind_to(_, _, _)
rewind_to(b, number, i) ==
    IF b.err # NoErr \/ ~(number <= Len(b.d)) THEN b
    ELSE IF Len(b.h) + 1 + i < 1 THEN [b EXCEPT !.err = "IndexError"]
         ELSE rewind_to(pop(b, b.heap[b.h[Len(b.h) + 1 + i]]), number, i - 1)

\* the history index a replay failed at, kept for the report of the call
FailedAt(b, i) == IF b.err # NoErr THEN [b EXCEPT !.at = i] ELSE b

\* RuleUnsafe._forward_from: for i in range(start - 1, len(history_buff))
RECURSIVE forward_from(_, _)
forward_from(b, i) ==
    IF b.err # NoErr \/ i > Len(b.h) THEN b
    ELSE forward_from(FailedAt(append(b, b.heap[b.h[i]]), i), i + 1)

\* ---------------------------------------------------------------- put / remove
\* history_buff[i].number += delta for the 1-based positions from..Len(h)
Renumber(heap, h, from, delta) ==
    [k \in 1 .. Len(heap) |->
        IF \E i \in from .. Len(h) : h[i] = k
        THEN [heap[k] EXCEPT !.number = @ + delta]
        ELSE heap[k]]

\* list.insert(index, item): an index beyond the end appends
ListInsert(s, index, item) ==
    LET at == IF index > Len(s) THEN Len(s) ELSE index
    IN  SubSeq(s, 1, at) \o <<item>> \o SubSeq(s, at + 1, Len(s))

\* list.pop(index), 0-based, for an index inside the list
ListPop(s, index) == SubSeq(s, 1, index) \o SubSeq(s, index + 2, Len(s))

\* put at the tail, b being the buffer _append left:
\* self.history_buff.append(move.copy())
PutTail(b, move) ==
    IF b.err # NoErr THEN b
    ELSE [b EXCEPT !.heap = Append(@, move), !.h = Append(@, Len(b.heap) + 1)]

\* put elsewhere, b being the buffer _rewind_to left: insert the copy of
\* the move, renumber the moves after it, replay
PutInsert(b, move) ==
    IF b.err # NoErr THEN b
    ELSE LET heap1 == Append(b.heap, move)
             h1 == ListInsert(b.h, move.number - 1, Len(b.heap) + 1)
         IN  forward_from([b EXCEPT !.h = h1,
                                    !.heap = Renumber(heap1, h1, move.number + 1, 1)],
                          move.number)

\* the body of RuleUnsafe.put after the optional reset
put_body(b, move) ==
    IF move.number = Len(b.h)
    THEN PutTail(append(b, move), move)
    ELSE PutInsert(rewind_to(b, move.number, -1), move)

\* remove at the tail, b being the buffer _pop left: self.history_buff.pop()
RemoveTail(b) == IF b.err # NoErr THEN b ELSE [b EXCEPT !.h = Front(@)]

\* remove elsewhere, b being the buffer _rewind_to left: pop the history
\* entry (IndexError beyond the end), renumber the moves after it, replay
RemoveReplay(b, move) ==
    IF b.err # NoErr THEN b
    ELSE IF move.number - 1 >= Len(b.h)
         THEN [b EXCEPT !.err = "IndexError"]
         ELSE forward_from([b EXCEPT !.h = ListPop(b.h, move.number - 1),
                                     !.heap = Renumber(@, ListPop(b.h, move.number - 1),
                                                       move.number, -1)],
                           move.number)

\* the body of RuleUnsafe.remove after the optional reset
remove_body(b, move) ==
    IF move.number = Len(b.h)
    THEN RemoveTail(pop(b, move))
    ELSE RemoveReplay(rewind_to(b, move.number, -1), move)

\* the messages passed to raisese by _append and _pop
StateErrors == {"Occupied", "Suicide", "Ko", "Empty", "Wrong Color."}

\* ---------------------------------------------------------------- state
VARIABLES
    stones, deleted, history,                \* the committed state
    stones_buff, deleted_buff, history_buff, \* the buffer
    heap,      \* the Move objects the two history lists refer to
    shared,    \* TRUE while the buffer lists are the committed lists (after confirm)
    last,      \* the last call: [op, err, reset, move]
    offseq,    \* the number of out-of-sequence calls made so far
    obs        \* what a specification records about the calls so far

vars == << stones, deleted, history, stones_buff, deleted_buff, history_buff,
           heap, shared, last, offseq, obs >>

NoMove == Mv(E, 0, 0, 0)

\* notified: the grids passed to listener.stones_changed during the call
Call(op, err, flag, move, at) ==
    [op |-> op, err |-> err, reset |-> flag, move |-> move, at |-> at,
     notified |-> <<>>]

\* The Move objects are addressed by their position in `heap`.  After every
\* call the objects no list refers to are dropped and the others renamed in
\* the order history, history_buff (the address of an object is not
\* observable, only which references are equal).
Live(hist, hbuf) == hist \o SelectSeq(hbuf, LAMBDA i : ~InSeq(i, hist))

NewAddr(live, i) == CHOOSE k \in 1 .. Len(live) : live[k] = i

SetEngine(g, d, h, gb, db, hb, hp, sh) ==
    LET live == Live(h, hb)
    IN  /\ stones' = g
        /\ deleted' = d
        /\ history' = [k \in 1 .. Len(h) |-> NewAddr(live, h[k])]
        /\ stones_buff' = gb
        /\ deleted_buff' = db
        /\ history_buff' = [k \in 1 .. Len(hb) |-> NewAddr(live, hb[k])]
        /\ heap' = [k \in 1 .. Len(live) |-> hp[live[k]]]
        /\ shared' = sh

\* RuleUnsafe.__init__: empty committed state, then reset()
InitEngine ==
    /\ stones = EmptyGrid
    /\ deleted = <<>>
    /\ history = <<>>
    /\ stones_buff = EmptyGrid
    /\ deleted_buff = <<>>
    /\ history_buff = <<>>
    /\ heap = <<>>
    /\ shared = FALSE
    /\ last = Call("init", NoErr, TRUE, NoMove, 0)
    /\ offseq = 0

Init == InitEngine /\ obs = "-"

\* The buffer a call starts from: reset() copies the committed state
\* (list(...) and copystones() make new lists holding the same objects).
\* put / remove that keep the staged buffer whatever the reset flag
StartBufferKeepStaged(flag) ==
    [g |-> stones_buff, d |-> deleted_buff, h |-> history_buff,
     heap |-> heap, err |-> NoErr, at |-> 0]

StartBuffer(flag) ==
    IF flag
    THEN [g |-> stones, d |-> deleted, h |-> history, heap |-> heap, err |-> NoErr, at |-> 0]
    ELSE [g |-> stones_buff, d |-> deleted_buff, h |-> history_buff,
          heap |-> heap, err |-> NoErr, at |-> 0]

\* put / remove with a raisese that does not reset the buffer
FinishNoRollback(r, flag) ==
    LET sh == shared /\ ~flag
    IN  SetEngine(IF sh THEN r.g ELSE stones, IF sh THEN r.d ELSE deleted,
                  IF sh THEN r.h ELSE history, r.g, r.d, r.h, r.heap, sh)

\* The state a put / remove call leaves, r being the buffer its body ended
\* with.  While the buffer lists are the committed lists, the body has
\* changed the committed state too.  A state error went through raisese,
\* which resets the buffer; any other exception leaves it as it is.
Finish(r, flag) ==
    LET sh == shared /\ ~flag
        g == IF sh THEN r.g ELSE stones
        d == IF sh THEN r.d ELSE deleted
        h == IF sh THEN r.h ELSE history
    IN  IF r.err \in StateErrors
        THEN SetEngine(g, d, h, g, d, h, r.heap, FALSE)
        ELSE SetEngine(g, d, h, r.g, r.d, r.h, r.heap, sh)

\* the end of a put / remove call: the state it leaves and its report
Return(op, r, flag, move) ==
    /\ Finish(r, flag)
    /\ last' = Call(op, r.err, flag, move, r.at)

\* RuleUnsafe.put(move, reset)
put(move, flag) == Return("put", put_body(StartBuffer(flag), move), flag, move)

\* RuleUnsafe.remove(move, reset)
remove(move, flag) == Return("remove", remove_body(StartBuffer(flag), move), flag, move)

\* RuleUnsafe.confirm: stones_buff is never None once __init__ has run
\* (__init__ ends with reset()), so the else branch is never taken; the
\* listener is given self.stones after the assignment.
confirm ==
    /\ SetEngine(stones_buff, deleted_buff, history_buff,
                 stones_buff, deleted_buff, history_buff, heap, TRUE)
    /\ last' = [Call("confirm", NoErr, TRUE, NoMove, 0)
                    EXCEPT !.notified = << stones_buff >>]

\* RuleUnsafe.reset
reset ==
    /\ SetEngine(stones, deleted, history, stones, deleted, history, heap, FALSE)
    /\ last' = Call("reset", NoErr, TRUE, NoMove, 0)

\* a clear that tells the listener about the emptied grid
clearNotifying ==
    /\ SetEngine(EmptyGrid, <<>>, <<>>, EmptyGrid, <<>>, <<>>, <<>>, FALSE)
    /\ last' = [Call("clear", NoErr, TRUE, NoMove, 0) EXCEPT !.notified = << EmptyGrid >>]

\* RuleUnsafe.clear: __init__ again, with the same listener
clear ==
    /\ SetEngine(EmptyGrid, <<>>, <<>>, EmptyGrid, <<>>, <<>>, <<>>, FALSE)
    /\ last' = Call("clear", NoErr, TRUE, NoMove, 0)

\* ---------------------------------------------------------------- Spec
\* The engine driven through its call interface: put and remove with either
\* value of the reset flag and any move number from 1 to two past the end
\* of the history, confirm, reset, clear.
\*
\* A call is in sequence when it resets the buffer and addresses the tail
\* of the committed history: a put numbered one past the last move, a
\* remove of the last move under its own number.  Any number of these may
\* be made; the other calls (reset=False, another number, another move to
\* remove) are offered while fewer than MaxOffSeq of them were made.
\* The stones offered: the corner point for both colours and its two
\* neighbours for Black (capture of the corner stone, suicide in the corner,
\* occupied points, removal with the wrong colour).
Stones == { <<W, 0, 0>>, <<B, 0, 0>>, <<B, 1, 0>>, <<B, 0, 1>> }

StartHistory(flag) == IF flag THEN history ELSE history_buff

InSequencePut(m, flag) == flag /\ m.number = Len(history) + 1

InSequenceRemove(m, flag) ==
    /\ flag
    /\ Len(history) >= 1
    /\ m.number = Len(history)
    /\ MoveEq(m, heap[history[Len(history)]])

Offer(insequence) ==
    /\ insequence \/ offseq < MaxOffSeq
    /\ offseq' = IF insequence THEN offseq ELSE offseq + 1

\* put calls with a stone of `offered`, a reset flag of `flags` and any
\* number from 1 to two past the end of the history the call starts from
PutCalls(offered, flags, maxhist) ==
    \E s \in offered, flag \in flags :
        \E n \in 1 .. Len(StartHistory(flag)) + 2 :
            /\ Len(StartHistory(flag)) < maxhist
            /\ Offer(InSequencePut(Mv(s[1], s[2], s[3], n), flag))
            /\ put(Mv(s[1], s[2], s[3], n), flag)

\* remove calls, likewise, with any number from 1 to one past the end
RemoveCalls(offered, flags) ==
    \E s \in offered, flag \in flags :
        \E n \in 1 .. Len(StartHistory(flag)) + 1 :
            /\ Offer(InSequenceRemove(Mv(s[1], s[2], s[3], n), flag))
            /\ remove(Mv(s[1], s[2], s[3], n), flag)

Put == PutCalls(Stones, BOOLEAN, MaxHist) /\ obs' = obs

Remove == RemoveCalls(Stones, BOOLEAN) /\ obs' = obs

Confirm == confirm /\ UNCHANGED << offseq, obs >>

Reset == reset /\ UNCHANGED << offseq, obs >>

Clear == clear /\ offseq' = 0 /\ obs' = obs

Next == Put \/ Remove \/ Confirm \/ Reset \/ Clear

Spec == Init /\ [][Next]_vars

\* ---------------------------------------------------------------- SpecSeq
\* The same calls with reset=True only, on histories one move longer: long
\* enough for a move that is legal only because of a capture made earlier
\* in the game.
PutSeq == PutCalls(Stones, {TRUE}, SeqMaxHist) /\ obs' = obs

RemoveSeq == RemoveCalls(Stones, {TRUE}) /\ obs' = obs

NextSeq == PutSeq \/ RemoveSeq \/ Confirm \/ Reset \/ Clear

SpecSeq == Init /\ [][NextSeq]_vars

\* ---------------------------------------------------------------- views
\* the moves of the two histories, by value
Committed == [k \in 1 .. Len(history) |-> heap[history[k]]]

Buffered == [k \in 1 .. Len(history_buff) |-> heap[history_buff[k]]]

\* C2: a put or remove call, accepted or rejected and with either reset
\* flag, and a reset call leave the committed grid, the committed capture
\* log and the committed history (moves and their numbers) as they were.
C2_CallsLeaveCommitted ==
    [][ last'.op \in {"put", "remove", "reset"}
        => /\ stones' = stones
           /\ deleted' = deleted
           /\ Committed' = Committed ]_vars

C3_WitnessInsert ==
    /\ last.op = "put"
    /\ last.err \in StateErrors
    /\ last.at > last.move.number

\* C4: a put with reset=False that fails with Occupied, Ko or Suicide
\* leaves the buffer grid, capture log and history as they were before it.
C4_FailedPutKeepsBuffer ==
    [][ (last'.op = "put" /\ ~last'.reset /\ last'.err \in {"Occupied", "Ko", "Suicide"})
        => /\ stones_buff' = stones_buff
           /\ deleted_buff' = deleted_buff
           /\ Buffered' = Buffered ]_vars

\* what a put call starts from, after its optional reset
StartGrid(flag) == IF flag THEN stones ELSE stones_buff

\* C5: a put on a point that holds a stone fails with Occupied, whatever
\* its number, and leaves the committed grid as it was.
C5_OccupiedIsRejected ==
    [][ (/\ last'.op = "put"
         /\ StartGrid(last'.reset)[last'.move.x][last'.move.y] # E)
        => /\ last'.err = "Occupied"
           /\ stones' = stones ]_vars

\* ---------------------------------------------------------------- SpecEdit
\* Accepted puts, each followed by confirm, and the undoing of the move
\* just confirmed: remove of that move, then confirm.  obs records the step
\* the run is at, the move of the last put, the committed state that put
\* started from, and whether the run has made puts and confirms only.
InitEdit ==
    /\ InitEngine
    /\ obs = [step |-> "idle", puts |-> TRUE, ok |-> TRUE, m |-> NoMove,
              g |-> EmptyGrid, d |-> <<>>, h |-> <<>>]

Play ==
    /\ obs.step \in {"idle", "kept", "undone"}
    /\ Len(history) < MaxHist
    /\ \E s \in Stones, flag \in BOOLEAN :
           \E n \in 1 .. Len(StartHistory(flag)) + 2 :
               /\ put(Mv(s[1], s[2], s[3], n), flag)
               /\ last'.err = NoErr
               /\ obs' = [step |-> "put", puts |-> obs.puts, ok |-> TRUE,
                          m |-> Mv(s[1], s[2], s[3], n),
                          g |-> stones, d |-> deleted, h |-> Committed]
    /\ offseq' = offseq

Keep ==
    /\ obs.step = "put"
    /\ confirm
    /\ obs' = [obs EXCEPT !.step = "kept"]
    /\ offseq' = offseq

Undo ==
    /\ obs.step = "kept"
    /\ \E flag \in BOOLEAN : remove(obs.m, flag)
    /\ obs' = [obs EXCEPT !.step = "removed", !.puts = FALSE,
                           !.ok = (last'.err = NoErr)]
    /\ offseq' = offseq

KeepUndo ==
    /\ obs.step = "removed"
    /\ confirm
    /\ obs' = [obs EXCEPT !.step = "undone"]
    /\ offseq' = offseq

NextEdit == Play \/ Keep \/ Undo \/ KeepUndo

SpecEdit == InitEdit /\ [][NextEdit]_vars

\* the committed history replayed on an empty board by _append alone
Replay ==
    forward_from([g |-> EmptyGrid, d |-> <<>>, h |-> history, heap |-> heap,
                  err |-> NoErr, at |-> 0], 1)

\* C1: after accepted puts, each followed by confirm, the committed grid is
\* the one obtained by replaying the committed history from an empty board.
C1_GridIsReplayOfHistory ==
    (obs.puts /\ obs.step = "kept")
        => (Replay.err = NoErr /\ Replay.g = stones)

\* C7: put(m) accepted and confirmed, then remove(m) accepted and
\* confirmed: the committed grid, capture log and history are those from
\* before put(m).
C7_RemoveUndoesPut ==
    (obs.step = "undone" /\ obs.ok)
        => (stones = obs.g /\ deleted = obs.d /\ Committed = obs.h)

\* ---------------------------------------------------------------- games
\* A game played in sequence: put(move numbered one past the committed
\* history, reset=True), and confirm.  The committed state is then what the
\* put started from and the buffer is what it left.
PlayCalls(offered, maxplay) ==
    \E s \in offered :
        /\ Len(history) < maxplay
        /\ put(Mv(s[1], s[2], s[3], Len(history) + 1), TRUE)
        /\ offseq' = offseq

\* Groups and liberties as the rules of Go define them, for the statements
\* below (the code computes them in _data).
Cells == Rows \X Rows

Adjacent(p, q) ==
    q \in { <<p[1] - 1, p[2]>>, <<p[1] + 1, p[2]>>, <<p[1], p[2] - 1>>, <<p[1], p[2] + 1>> }

RECURSIVE Grow(_, _, _)
Grow(g, color, S) ==
    LET T == S \cup { q \in Cells : g[q[1]][q[2]] = color /\ \E r \in S : Adjacent(r, q) }
    IN  IF T = S THEN S ELSE Grow(g, color, T)

GroupOf(g, p) == Grow(g, g[p[1]][p[2]], {p})

LibertiesOf(g, S) ==
    { q \in Cells : g[q[1]][q[2]] = E /\ \E r \in S : Adjacent(r, q) }

\* the grid with the stone of move m on it, nothing taken off yet
Placed(g, m) == SetCell(g, m.x, m.y, m.color)

\* the enemy stones that the placement of m on g leaves without liberty:
\* the groups next to m that have none
Dead(g, m) ==
    { q \in Cells :
        /\ Placed(g, m)[q[1]][q[2]] = enemy_of(m.color)
        /\ \E r \in GroupOf(Placed(g, m), q) : Adjacent(<<m.x, m.y>>, r)
        /\ LibertiesOf(Placed(g, m), GroupOf(Placed(g, m), q)) = {} }

\* the last call: a put, made on an empty point of the committed grid
PlacedOnEmpty == last.op = "put" /\ stones[last.move.x][last.move.y] = E

\* ---------------------------------------------------------------- SpecRules
\* Games of up to MaxPlay moves on the corner (0,0), its neighbours (1,0)
\* and (0,1), and their neighbours (1,1) and (0,2), both colours.
RuleStones == {B, W} \X { <<0, 0>>, <<1, 0>>, <<0, 1>>, <<1, 1>>, <<0, 2>> }

PutRules ==
    /\ PlayCalls({ <<s[1], s[2][1], s[2][2]>> : s \in RuleStones }, MaxPlay)
    /\ obs' = obs

NextRules == PutRules \/ Confirm

SpecRules == Init /\ [][NextRules]_vars

\* C6: an accepted placement takes off the buffer grid exactly the stones
\* of the adjacent enemy groups it leaves without liberty, and its capture
\* entry holds exactly those stones, in the enemy colour.
C6_CaptureExactlyDeadGroups ==
    (PlacedOnEmpty /\ last.err = NoErr)
        => /\ stones_buff =
                [x \in Rows |-> [y \in Rows |->
                    IF <<x, y>> \in Dead(stones, last.move) THEN E
                    ELSE Placed(stones, last.move)[x][y]]]
           /\ Len(deleted_buff) = Len(deleted) + 1
           /\ SubSeq(deleted_buff, 1, Len(deleted)) = deleted
           /\ LET entry == deleted_buff[Len(deleted_buff)]
              IN  /\ Len(entry) = Cardinality(Dead(stones, last.move))
                  /\ { entry[k] : k \in 1 .. Len(entry) } =
                        { Stone(enemy_of(last.move.color), q[1], q[2]) :
                            q \in Dead(stones, last.move) }

\* a group of two stones is captured
C6_Witness ==
    /\ PlacedOnEmpty /\ last.err = NoErr
    /\ Cardinality(Dead(stones, last.move)) = 2
    /\ Len(deleted_buff[Len(deleted_buff)]) = 2

\* the lone stone in the corner is captured by the move on its second neighbour
C6_WitnessCorner ==
    /\ PlacedOnEmpty /\ last.err = NoErr
    /\ Dead(stones, last.move) = { <<0, 0>> }
    /\ stones[0][0] # E /\ stones_buff[0][0] = E

\* C10: a placement on an empty point fails with Suicide exactly when it
\* captures nothing and leaves its own group without liberty.
C10_SuicideIffNoCaptureNoLiberty ==
    PlacedOnEmpty
        => ( last.err = "Suicide"
             <=> /\ Dead(stones, last.move) = {}
                 /\ LibertiesOf(Placed(stones, last.move),
                                GroupOf(Placed(stones, last.move),
                                        <<last.move.x, last.move.y>>)) = {} )

\* a stone played in a one-point eye of the opponent, nothing captured
C10_Witness ==
    /\ PlacedOnEmpty /\ last.err = "Suicide"
    /\ \A q \in Cells : Adjacent(<<last.move.x, last.move.y>>, q)
                          => stones[q[1]][q[2]] = enemy_of(last.move.color)

\* a stone that fills its own last liberty and captures is accepted
C10_WitnessCapture ==
    /\ PlacedOnEmpty /\ last.err = NoErr
    /\ Dead(stones, last.move) # {}
    /\ LibertiesOf(Placed(stones, last.move),
                   GroupOf(Placed(stones, last.move),
                           <<last.move.x, last.move.y>>)) = {}

\* ---------------------------------------------------------------- SpecKo
\* Games of up to KoMaxPlay moves with the stones of a ko in the corner:
\* Black (1,0) and (0,1) around the point (0,0), White (1,1) and (0,2)
\* around (0,1), White on (0,0).  Once a move was refused with Ko, one
\* stone of each colour is offered elsewhere, (2,2) and (2,1).  obs records
\* the move last refused with Ko and the number of moves accepted and
\* confirmed elsewhere since (counted up to 2).
KoStones == { <<B, 1, 0>>, <<W, 1, 1>>, <<W, 0, 2>>, <<W, 0, 0>>, <<B, 0, 1>> }

ElsewhereStones == { <<B, 2, 2>>, <<W, 2, 1>> }

InitKo == InitEngine /\ obs = [ko |-> NoMove, since |-> 0]

\* obs after a put: a move refused with Ko is recorded, unless it is the
\* recorded one refused again
ObserveKo ==
    obs' = IF last'.err = "Ko" /\ ~(obs.ko # NoMove /\ MoveEq(last'.move, obs.ko))
           THEN [ko |-> last'.move, since |-> 0]
           ELSE obs

PutKo == PlayCalls(KoStones, KoMaxPlay) /\ ObserveKo

PutElsewhere ==
    /\ obs.ko # NoMove
    /\ PlayCalls(ElsewhereStones, KoMaxPlay)
    /\ ObserveKo

ConfirmKo ==
    /\ confirm
    /\ offseq' = offseq
    /\ obs' = IF last.op = "put" /\ last.err = NoErr /\ obs.ko # NoMove
              THEN IF last.move.x = obs.ko.x /\ last.move.y = obs.ko.y
                   THEN [ko |-> NoMove, since |-> 0]
                   ELSE [obs EXCEPT !.since = IF @ < 2 THEN @ + 1 ELSE @]
              ELSE obs

NextKo == PutKo \/ PutElsewhere \/ ConfirmKo

SpecKo == InitKo /\ [][NextKo]_vars

\* the last call is a put at the point where the last committed move took
\* exactly one stone, by the colour of that stone, and it would itself take
\* exactly one stone: the one played by the last committed move
Recapture ==
    /\ PlacedOnEmpty
    /\ Len(history) >= 1
    /\ Len(deleted[Len(deleted)]) = 1
    /\ MoveEq(last.move, deleted[Len(deleted)][1])
    /\ Dead(stones, last.move) =
          { <<heap[history[Len(history)]].x, heap[history[Len(history)]].y>> }

\* C8: the immediate recapture of a ko fails with Ko and leaves the buffer
\* grid equal to the committed grid, the point of the recapture empty.
C8_ImmediateRecaptureIsKo ==
    Recapture
        => /\ last.err = "Ko"
           /\ stones_buff = stones
           /\ stones_buff[last.move.x][last.move.y] = E

C8_Witness == Recapture /\ last.err = "Ko"

\* C9: the recapture that was refused with Ko is accepted once at least one
\* move was played and confirmed elsewhere, when it still captures.
C9_RecaptureAfterExchange ==
    (/\ PlacedOnEmpty
     /\ obs.ko # NoMove /\ obs.since >= 1
     /\ MoveEq(last.move, obs.ko)
     /\ Dead(stones, last.move) # {})
        => /\ last.err = NoErr
           /\ stones_buff[last.move.x][last.move.y] = last.move.color

\* the recapture is played after one move of each colour elsewhere
C9_Witness ==
    /\ PlacedOnEmpty
    /\ obs.ko # NoMove /\ obs.since = 2
    /\ MoveEq(last.move, obs.ko)
    /\ Dead(stones, last.move) # {}
    /\ last.err = NoErr
    /\ stones[2][2] = B /\ stones[2][1] = W

\* ---------------------------------------------------------------- confirm
\* C11: confirm called with nothing staged (straight after construction or
\* after clear) fails with "Confirmation Denied" and leaves the committed
\* state as it was.
C11_ConfirmWithoutStagedDenied ==
    [][ (last'.op = "confirm" /\ last.op \in {"init", "clear"})
        => /\ last'.err = "Confirmation Denied"
           /\ stones' = stones /\ deleted' = deleted /\ Committed' = Committed ]_vars

\* C12: stones_changed is called exactly once by confirm, with the grid
\* that is committed when confirm returns, and by no other call.
C12_ListenerToldOncePerConfirm ==
    /\ last.op = "confirm" => last.notified = << stones >>
    /\ last.op # "confirm" => last.notified = <<>>

\* a confirm that committed a stone
C12_Witness ==
    /\ last.op = "confirm"
    /\ last.notified = << stones >>
    /\ stones # EmptyGrid

\* ---------------------------------------------------------------- threads
\* class Rule: put, remove and confirm run `with self.rlock`; copystones
\* too; reset and clear are inherited unlocked.  In the specifications with
\* threads obs.th[t] is the position of thread t:
\*   at    : "idle", or the call the thread is in;
\*   move  : the argument of its put / remove;
\*   holds : "none", "current" (it holds the RLock that self.rlock refers
\*           to) or "stale" (it holds an RLock that self.rlock referred to
\*           before a clear() replaced it);
\*   depth : how many times it has acquired the lock it holds;
\* and the fields a specification adds.  The statements a thread executes
\* between two of its lock operations are taken in one step.
Threads == {1, 2}

\* the stones the threads play: a corner stone, and stones away from it
ThreadStones == { <<B, 0, 0>>, <<W, 2, 2>>, <<B, 2, 0>> }

LockFree(th) == \A u \in Threads : th[u].holds # "current"

\* a lock that its owner cannot acquire again (threading.Lock)
CanAcquireNotReentrant(th, t) == LockFree(th)

\* threading.RLock.acquire by thread t does not block
CanAcquire(th, t) == th[t].holds = "current" \/ LockFree(th)

\* the Rule method thread t has entered
InBody(th, t) == th[t].at \in {"put", "remove", "confirm"}

Idle == [at |-> "idle", move |-> NoMove, holds |-> "none", depth |-> 0]

\* thread record r after `with self.rlock:` of method op was entered
Entered(r, op, move) ==
    [r EXCEPT !.at = op, !.move = move, !.holds = "current", !.depth = r.depth + 1]

\* thread record r after the `with self.rlock:` block was left, towards `to`
Left(r, to) ==
    [r EXCEPT !.at = to, !.move = NoMove, !.depth = r.depth - 1,
              !.holds = IF r.depth = 1 THEN "none" ELSE r.holds]

InitThreads == InitEngine /\ obs = [th |-> [t \in Threads |-> Idle]]

\* Rule.put / remove / confirm up to `with self.rlock:` acquired.  The
\* caller numbered its move after the committed history it saw.
EnterPut(t) ==
    /\ obs.th[t].at = "idle"
    /\ CanAcquire(obs.th, t)
    /\ Len(history) < MaxThreadHist
    /\ \E s \in ThreadStones :
          obs' = [obs EXCEPT !.th[t] =
                     Entered(obs.th[t], "put", Mv(s[1], s[2], s[3], Len(history) + 1))]
    /\ UNCHANGED << stones, deleted, history, stones_buff, deleted_buff,
                    history_buff, heap, shared, last, offseq >>

EnterRemove(t) ==
    /\ obs.th[t].at = "idle"
    /\ CanAcquire(obs.th, t)
    /\ Len(history) >= 1
    /\ obs' = [obs EXCEPT !.th[t] =
                  Entered(obs.th[t], "remove", heap[history[Len(history)]])]
    /\ UNCHANGED << stones, deleted, history, stones_buff, deleted_buff,
                    history_buff, heap, shared, last, offseq >>

EnterConfirm(t) ==
    /\ obs.th[t].at = "idle"
    /\ CanAcquire(obs.th, t)
    /\ obs' = [obs EXCEPT !.th[t] = Entered(obs.th[t], "confirm", NoMove)]
    /\ UNCHANGED << stones, deleted, history, stones_buff, deleted_buff,
                    history_buff, heap, shared, last, offseq >>

\* the body of the method and the release of the lock.  put and remove
\* begin with reset(), whose copystones() takes self.rlock again.
BodyPut(t) ==
    /\ obs.th[t].at = "put"
    /\ CanAcquire(obs.th, t)
    /\ put(obs.th[t].move, TRUE)
    /\ obs' = [obs EXCEPT !.th[t] = Left(obs.th[t], "idle")]
    /\ offseq' = offseq

BodyRemove(t) ==
    /\ obs.th[t].at = "remove"
    /\ CanAcquire(obs.th, t)
    /\ remove(obs.th[t].move, TRUE)
    /\ obs' = [obs EXCEPT !.th[t] = Left(obs.th[t], "idle")]
    /\ offseq' = offseq

BodyConfirm(t) ==
    /\ obs.th[t].at = "confirm"
    /\ confirm
    /\ obs' = [obs EXCEPT !.th[t] = Left(obs.th[t], "idle")]
    /\ offseq' = offseq

\* reset(): self.stones_buff = self.copystones(), under the lock ...
ResetGrid(t) ==
    /\ obs.th[t].at = "idle"
    /\ CanAcquire(obs.th, t)
    /\ SetEngine(stones, deleted, history, stones, deleted_buff, history_buff, heap, shared)
    /\ obs' = [obs EXCEPT !.th[t].at = "reset"]
    /\ UNCHANGED << last, offseq >>

\* ... then deleted_buff = list(deleted); history_buff = list(history)
ResetRest(t) ==
    /\ obs.th[t].at = "reset"
    /\ SetEngine(stones, deleted, history, stones_buff, deleted, history, heap, FALSE)
    /\ last' = Call("reset", NoErr, TRUE, NoMove, 0)
    /\ obs' = [obs EXCEPT !.th[t].at = "idle"]
    /\ offseq' = offseq

\* clear() is Rule.__init__ again: RuleUnsafe.__init__ (its reset() takes
\* the lock for copystones) ...
ClearState(t) ==
    /\ obs.th[t].at = "idle"
    /\ CanAcquire(obs.th, t)
    /\ clear
    /\ obs' = [obs EXCEPT !.th[t].at = "clear"]
    /\ offseq' = offseq

\* ... then self.rlock = threading.RLock(): whoever holds the lock now
\* holds one that self.rlock no longer refers to
ClearLock(t) ==
    /\ obs.th[t].at = "clear"
    /\ obs' = [obs EXCEPT !.th = [u \in Threads |->
                  IF u = t THEN [obs.th[u] EXCEPT !.at = "idle"]
                  ELSE IF obs.th[u].holds = "current"
                       THEN [obs.th[u] EXCEPT !.holds = "stale"]
                       ELSE obs.th[u]]]
    /\ UNCHANGED << stones, deleted, history, stones_buff, deleted_buff,
                    history_buff, heap, shared, last, offseq >>

\* ---------------------------------------------------------------- SpecThreads
\* Two threads calling put, remove, confirm, reset and clear on one Rule.
NextThreads ==
    \E t \in Threads :
        \/ EnterPut(t) \/ BodyPut(t)
        \/ EnterRemove(t) \/ BodyRemove(t)
        \/ EnterConfirm(t) \/ BodyConfirm(t)
        \/ ResetGrid(t) \/ ResetRest(t)
        \/ ClearState(t) \/ ClearLock(t)

SpecThreads == InitThreads /\ [][NextThreads]_vars

\* C13: under every interleaving the committed grid is the replay of the
\* committed history and the committed capture log has one entry per move.
C13_CommittedConsistent ==
    /\ Replay.err = NoErr
    /\ Replay.g = stones
    /\ Len(deleted) = Len(history)

\* C14: no two threads are inside put, remove or confirm at the same time.
C14_OneThreadInBody ==
    \A t \in Threads, u \in Threads :
        (t # u) => ~(InBody(obs.th, t) /\ InBody(obs.th, u))

\* ---------------------------------------------------------------- SpecRace
\* Two players, one thread each, on one Rule and without a lock of their
\* own: a thread calls put(move numbered one past the committed history it
\* sees), and when put has returned normally, confirm.  obs.th[t] also has
\*   step : "start", "staged" (its put was accepted) or "done" (its confirm
\*          has returned);
\*   own  : the move of its last put;
\*   lost : another thread's put has run while its own accepted move was
\*          staged and not yet committed.
RaceStones(t) == IF t = 1 THEN { <<B, 0, 0>>, <<B, 2, 0>> }
                          ELSE { <<W, 2, 2>>, <<W, 0, 2>> }

InitRace ==
    /\ InitEngine
    /\ obs = [th |-> [t \in Threads |->
                 [at |-> "idle", move |-> NoMove, holds |-> "none", depth |-> 0,
                  step |-> "start", own |-> NoMove, lost |-> FALSE]]]

\* the committed state holds thread t's own move
HoldsOwn(t, g, h) ==
    /\ g[obs.th[t].own.x][obs.th[t].own.y] = obs.th[t].own.color
    /\ \E k \in 1 .. Len(h) : MoveEq(h[k], obs.th[t].own)

RaceEnterPut(t) ==
    /\ obs.th[t].at = "idle"
    /\ obs.th[t].step \in {"start", "done"}
    /\ CanAcquire(obs.th, t)
    /\ Len(history) < MaxThreadHist
    /\ \E s \in RaceStones(t) :
          obs' = [obs EXCEPT !.th[t] =
                     [Entered(obs.th[t], "put", Mv(s[1], s[2], s[3], Len(history) + 1))
                          EXCEPT !.step = "start", !.own = NoMove, !.lost = FALSE]]
    /\ UNCHANGED << stones, deleted, history, stones_buff, deleted_buff,
                    history_buff, heap, shared, last, offseq >>

RaceBodyPut(t) ==
    /\ obs.th[t].at = "put"
    /\ CanAcquire(obs.th, t)
    /\ put(obs.th[t].move, TRUE)
    /\ obs' = [obs EXCEPT !.th = [u \in Threads |->
                  IF u = t
                  THEN [Left(obs.th[u], "idle") EXCEPT
                            !.step = IF last'.err = NoErr THEN "staged" ELSE "start",
                            !.own = obs.th[u].move]
                  ELSE IF obs.th[u].step = "staged" /\ ~HoldsOwn(u, stones, Committed)
                       THEN [obs.th[u] EXCEPT !.lost = TRUE]
                       ELSE obs.th[u]]]
    /\ offseq' = offseq

RaceEnterConfirm(t) ==
    /\ obs.th[t].at = "idle"
    /\ obs.th[t].step = "staged"
    /\ CanAcquire(obs.th, t)
    /\ obs' = [obs EXCEPT !.th[t] = Entered(obs.th[t], "confirm", NoMove)]
    /\ UNCHANGED << stones, deleted, history, stones_buff, deleted_buff,
                    history_buff, heap, shared, last, offseq >>

RaceBodyConfirm(t) ==
    /\ obs.th[t].at = "confirm"
    /\ confirm
    /\ obs' = [obs EXCEPT !.th[t] = [Left(obs.th[t], "idle") EXCEPT !.step = "done"]]
    /\ offseq' = offseq

NextRace ==
    \E t \in Threads :
        \/ RaceEnterPut(t) \/ RaceBodyPut(t)
        \/ RaceEnterConfirm(t) \/ RaceBodyConfirm(t)

SpecRace == InitRace /\ [][NextRace]_vars

\* thread t's confirm returns in this step
ConfirmReturns(t) == obs.th[t].at = "confirm" /\ obs'.th[t].at = "idle"

\* C15: without a caller-held lock put then confirm is not atomic.  When
\* another thread's put has run between a thread's accepted put and its
\* confirm, while the move was staged only, the staged move was reset and
\* the confirm commits a state without the thread's own move; when none
\* has, the confirm commits a state with it.
C15_ConfirmAfterForeignPutLosesMove ==
    [][ \A t \in Threads :
          ConfirmReturns(t) =>
              (obs.th[t].lost <=> ~HoldsOwn(t, stones', Committed')) ]_vars

\* thread 1 staged B(0,0), thread 2's put of W(2,2) ran, thread 1's confirm
\* committed the white stone alone
C15_Witness ==
    /\ obs.th[1].step = "done"
    /\ obs.th[1].lost
    /\ obs.th[1].own = Mv(B, 0, 0, 1)
    /\ last.op = "confirm"
    /\ stones[0][0] = E
    /\ Committed = << Mv(W, 2, 2, 1) >>

\* ---------------------------------------------------------------- SpecLocked
\* Two threads, each wrapping its calls in the engine's lock:
\*     with rule.rlock:
\*         rule.put(move)        (or rule.remove(last move))
\*         rule.confirm()
\* the move being numbered after the committed history read under the lock.
\* A state error of put / remove leaves the with block.  obs.th[t] also has
\*   step : "start", "staged", "failed" or "done";
\*   call : "put" or "remove", the call of this sequence;
\*   own  : its argument;
\*   base : the committed grid, capture log and history before that call.
LockedStones == { <<W, 0, 0>>, <<B, 1, 0>>, <<B, 0, 1>> }

NoBase == [g |-> EmptyGrid, d |-> <<>>, h |-> <<>>]

InitLocked ==
    /\ InitEngine
    /\ obs = [th |-> [t \in Threads |->
                 [at |-> "idle", move |-> NoMove, holds |-> "none", depth |-> 0,
                  step |-> "start", call |-> "put", own |-> NoMove, base |-> NoBase]]]

UnchangedEngine ==
    UNCHANGED << stones, deleted, history, stones_buff, deleted_buff,
                 history_buff, heap, shared, last, offseq >>

\* with rule.rlock:   (the caller's acquisition)
Acquire(t) ==
    /\ obs.th[t].at = "idle"
    /\ CanAcquire(obs.th, t)
    /\ obs' = [obs EXCEPT !.th[t] =
                  [Entered(obs.th[t], "locked", NoMove) EXCEPT !.step = "start"]]
    /\ UnchangedEngine

LockedEnterPut(t) ==
    /\ obs.th[t].at = "locked"
    /\ obs.th[t].step = "start"
    /\ CanAcquire(obs.th, t)
    /\ Len(history) < MaxLockedHist
    /\ \E s \in LockedStones :
          obs' = [obs EXCEPT !.th[t] =
                     [Entered(obs.th[t], "put", Mv(s[1], s[2], s[3], Len(history) + 1))
                          EXCEPT !.call = "put"]]
    /\ UnchangedEngine

LockedEnterRemove(t) ==
    /\ obs.th[t].at = "locked"
    /\ obs.th[t].step = "start"
    /\ CanAcquire(obs.th, t)
    /\ Len(history) >= 1
    /\ obs' = [obs EXCEPT !.th[t] =
                  [Entered(obs.th[t], "remove", heap[history[Len(history)]])
                       EXCEPT !.call = "remove"]]
    /\ UnchangedEngine

\* the thread record after its put / remove, which ended with error err
AfterCall(r, err) ==
    [Left(r, "locked") EXCEPT
         !.step = IF err = NoErr THEN "staged" ELSE "failed",
         !.own = r.move,
         !.base = [g |-> stones, d |-> deleted, h |-> Committed]]

LockedBodyPut(t) ==
    /\ obs.th[t].at = "put"
    /\ CanAcquire(obs.th, t)
    /\ put(obs.th[t].move, TRUE)
    /\ obs' = [obs EXCEPT !.th[t] = AfterCall(obs.th[t], last'.err)]
    /\ offseq' = offseq

LockedBodyRemove(t) ==
    /\ obs.th[t].at = "remove"
    /\ CanAcquire(obs.th, t)
    /\ remove(obs.th[t].move, TRUE)
    /\ obs' = [obs EXCEPT !.th[t] = AfterCall(obs.th[t], last'.err)]
    /\ offseq' = offseq

LockedEnterConfirm(t) ==
    /\ obs.th[t].at = "locked"
    /\ obs.th[t].step = "staged"
    /\ CanAcquire(obs.th, t)
    /\ obs' = [obs EXCEPT !.th[t] = Entered(obs.th[t], "confirm", NoMove)]
    /\ UnchangedEngine

LockedBodyConfirm(t) ==
    /\ obs.th[t].at = "confirm"
    /\ confirm
    /\ obs' = [obs EXCEPT !.th[t] = [Left(obs.th[t], "locked") EXCEPT !.step = "done"]]
    /\ offseq' = offseq

\* the end of the with block, or the state error leaving it
Release(t) ==
    /\ obs.th[t].at = "locked"
    /\ obs.th[t].step \in {"done", "failed"}
    /\ obs' = [obs EXCEPT !.th[t] = Left(obs.th[t], "idle")]
    /\ UnchangedEngine

ThreadLocked(t) ==
    \/ Acquire(t)
    \/ LockedEnterPut(t) \/ LockedBodyPut(t)
    \/ LockedEnterRemove(t) \/ LockedBodyRemove(t)
    \/ LockedEnterConfirm(t) \/ LockedBodyConfirm(t)
    \/ Release(t)

NextLocked == \E t \in Threads : ThreadLocked(t)

SpecLocked == InitLocked /\ [][NextLocked]_vars

\* the steps of thread t other than the bodies of put and remove
CallSteps(t) ==
    \/ Acquire(t)
    \/ LockedEnterPut(t) \/ LockedEnterRemove(t)
    \/ LockedEnterConfirm(t) \/ LockedBodyConfirm(t)
    \/ Release(t)

\* LockedBodyPut(t) or LockedBodyRemove(t) is enabled: the thread is in the
\* call and copystones() can take the lock; the body itself always ends,
\* with a result or a state error
InEngine(t) == obs.th[t].at \in {"put", "remove"} /\ CanAcquire(obs.th, t)

\* the step is one of thread t: only ThreadLocked(t) changes obs.th[t], and
\* each of its steps does
Moved(t) == obs'.th[t] # obs.th[t]

\* A thread that can take a step is eventually scheduled: weak fairness of
\* the steps of each thread.  For the bodies of put and remove it is
\* written out, WF_vars(A) being []<>~ENABLED <<A>>_vars \/ []<><<A>>_vars,
\* with InEngine(t) for ENABLED and Moved(t) for the step.
SpecLockedFair ==
    /\ SpecLocked
    /\ \A t \in Threads :
          /\ WF_vars(CallSteps(t))
          /\ ([]<>~InEngine(t) \/ []<><<Moved(t)>>_vars)

\* grid g without the stones of a capture log entry
WithoutCaptured(g, captured) ==
    [x \in Rows |-> [y \in Rows |->
        IF \E k \in 1 .. Len(captured) : captured[k].x = x /\ captured[k].y = y
        THEN E ELSE g[x][y]]]

\* the committed state is base plus put(own)
CommitsPut(base, own) ==
    /\ Committed = Append(base.h, own)
    /\ Front(deleted) = base.d
    /\ stones = WithoutCaptured(SetCell(base.g, own.x, own.y, own.color),
                                deleted[Len(deleted)])

\* the committed state is base less its last move own
CommitsRemove(base, own) ==
    /\ Committed = Front(base.h)
    /\ deleted = Front(base.d)
    /\ stones = Restore(SetCell(base.g, own.x, own.y, E), base.d[Len(base.d)], 1)

\* C16: with every put+confirm / remove+confirm sequence wrapped in the
\* engine's re-entrant lock, a thread holding the lock is never refused its
\* nested acquisitions, every thread that has taken the lock ends its calls
\* and releases it, and each confirm commits the state committed before the
\* thread's put / remove plus that one change.
C16_LockedSequenceAtomic ==
    /\ [](\A t \in Threads : obs.th[t].holds = "current" => CanAcquire(obs.th, t))
    /\ [][ \A t \in Threads :
             (obs.th[t].at = "confirm" /\ obs'.th[t].at = "locked")
                 => IF obs.th[t].call = "put"
                    THEN CommitsPut(obs.th[t].base, obs.th[t].own)'
                    ELSE CommitsRemove(obs.th[t].base, obs.th[t].own)' ]_vars
    /\ \A t \in Threads : (obs.th[t].depth >= 1) ~> (obs.th[t].depth = 0)

\* thread 2 has confirmed, inside its with block, the capture of the white
\* corner stone on top of two moves committed before
C16_Witness ==
    /\ obs.th[2].at = "locked"
    /\ obs.th[2].step = "done"
    /\ obs.th[2].call = "put"
    /\ Len(obs.th[2].base.h) = 2
    /\ Len(deleted[3]) = 1
    /\ last.op = "confirm"

\* ---------------------------------------------------------------- Kifu
\* The record is game.nodes, a list of nodes.  A node is
\*   [id |-> the identity of the object, mv |-> whether it has a B or W
\*    property (getmove() is not None), mn |-> properties["MN"][0]].
\* Every node has MN: NodeGl.number() runs at the end of each parsed node,
\* on the context node of a new game and in _prepare.

\* NodeGl.number(nb): nb forced when 0 <= nb; else the number of the
\* previous node (0 without one), plus one when the node is a move
number(nb, prev, mv) ==
    IF 0 <= nb THEN nb
    ELSE (IF Len(prev) = 0 THEN 0 ELSE prev[Len(prev)].mn) + (IF mv THEN 1 ELSE 0)

\* Kifu._new (one context node) and Kifu._parse: the nodes of the file in
\* order, shape[i] telling whether node i is a move, each numbered at its
\* end by my_end_node
RECURSIVE Opened(_, _)
Opened(shape, n) ==
    IF n = 0 THEN <<>>
    ELSE LET prev == Opened(shape, n - 1)
         IN  Append(prev, [id |-> n, mv |-> shape[n], mn |-> number(-1, prev, shape[n])])

\* Kifu._prepare(move) for a new node: NodeGl(self.game, self[-1]), the
\* colour property, number(nb=move.number)
prepare(nodes, id, nb) == [id |-> id, mv |-> TRUE, mn |-> number(nb, nodes, TRUE)]

\* self[-1] in _prepare raises IndexError on a record without node, before
\* append or insert has changed anything
PrepareFails(nodes) == Len(nodes) = 0

\* Kifu.append
kifu_append(nodes, id, nb) ==
    IF PrepareFails(nodes) THEN nodes ELSE Append(nodes, prepare(nodes, id, nb))

\* the loop of insert: nod.properties["MN"][0] += 1 when position <= nb
Bumped(nodes, position) ==
    [i \in 1 .. Len(nodes) |->
        IF position <= nodes[i].mn THEN [nodes[i] EXCEPT !.mn = @ + 1] ELSE nodes[i]]

\* idx of insert, 1-based: the last i with nb == position; 0 for None
InsertIdx(nodes, position) ==
    IF \E i \in 1 .. Len(nodes) : nodes[i].mn = position
    THEN CHOOSE i \in 1 .. Len(nodes) :
            /\ nodes[i].mn = position
            /\ \A j \in i + 1 .. Len(nodes) : nodes[j].mn # position
    ELSE 0

\* an insert that leaves the numbers of the other nodes alone
kifu_insertNoRenumber(nodes, id, position) ==
    IF PrepareFails(nodes) THEN nodes
    ELSE IF InsertIdx(nodes, position) # 0
    THEN SubSeq(nodes, 1, InsertIdx(nodes, position) - 1)
             \o << [prepare(nodes, id, position) EXCEPT !.mn = number(position, nodes, TRUE)] >>
             \o SubSeq(nodes, InsertIdx(nodes, position), Len(nodes))
    ELSE nodes

\* Kifu.insert(move, position), move.number being position.  After the
\* loop i is the index of the last node, len - 1.
kifu_insert(nodes, id, position) ==
    IF PrepareFails(nodes) THEN nodes
    ELSE IF InsertIdx(nodes, position) # 0
    THEN SubSeq(Bumped(nodes, position), 1, InsertIdx(nodes, position) - 1)
             \o << [prepare(nodes, id, position) EXCEPT !.mn = number(position, nodes, TRUE)] >>
             \o SubSeq(Bumped(nodes, position), InsertIdx(nodes, position), Len(nodes))
    ELSE IF Len(nodes) - 1 = position - 1
         THEN Append(Bumped(nodes, position),
                     [prepare(nodes, id, position) EXCEPT !.mn = number(position, nodes, TRUE)])
         ELSE Bumped(nodes, position)

\* torem of delete, 1-based: the first node with getmove().number ==
\* move.number (getmove() of a node without move is None); 0 for None
DeleteIdx(nodes, nb) ==
    IF \E i \in 1 .. Len(nodes) : nodes[i].mv /\ nodes[i].mn = nb
    THEN CHOOSE i \in 1 .. Len(nodes) :
            /\ nodes[i].mv /\ nodes[i].mn = nb
            /\ \A j \in 1 .. i - 1 : ~(nodes[j].mv /\ nodes[j].mn = nb)
    ELSE 0

\* a delete that leaves the numbers of the later nodes alone
kifu_deleteNoRenumber(nodes, nb) ==
    IF DeleteIdx(nodes, nb) = 0 THEN nodes
    ELSE SubSeq(nodes, 1, DeleteIdx(nodes, nb) - 1)
             \o SubSeq(nodes, DeleteIdx(nodes, nb) + 1, Len(nodes))

\* Kifu.delete(move): the nodes after torem have MN decremented, then
\* self.game.nodes.remove(torem)
kifu_delete(nodes, nb) ==
    IF DeleteIdx(nodes, nb) = 0 THEN nodes
    ELSE SubSeq(nodes, 1, DeleteIdx(nodes, nb) - 1)
             \o [i \in 1 .. Len(nodes) - DeleteIdx(nodes, nb) |->
                    [nodes[DeleteIdx(nodes, nb) + i] EXCEPT !.mn = @ - 1]]

\* ---------------------------------------------------------------- SpecKifu
\* A record opened from a file or new, then append, insert and delete
\* calls.  obs is
\*   [nodes |-> the record, op |-> the last call, arg |-> its position or
\*    move number, err |-> the exception it raised,
\*    prev |-> the record before the last call,
\*    orig |-> the record before the insert that the last call, a delete
\*    of the inserted number, followed, ops |-> the calls made].
Shapes == UNION { [1 .. n -> BOOLEAN] : n \in 1 .. MaxNodes }

InitKifu ==
    /\ InitEngine
    /\ \E shape \in Shapes :
          obs = [nodes |-> Opened(shape, Len(shape)), op |-> "open", arg |-> 0,
                 err |-> NoErr, prev |-> <<>>, orig |-> <<>>, ops |-> 0]

NewId == MaxNodes + obs.ops + 1

\* the number of the last move of the record, 0 without any move
TailNumber(nodes) ==
    IF \E i \in 1 .. Len(nodes) : nodes[i].mv
    THEN nodes[CHOOSE i \in 1 .. Len(nodes) :
                  nodes[i].mv /\ \A j \in i + 1 .. Len(nodes) : ~nodes[j].mv].mn
    ELSE 0

KifuCall(op, arg, err, nodes, orig) ==
    /\ obs.ops < MaxKifuOps
    /\ obs' = [nodes |-> nodes, op |-> op, arg |-> arg, err |-> err, prev |-> obs.nodes,
               orig |-> orig, ops |-> obs.ops + 1]
    /\ UNCHANGED << stones, deleted, history, stones_buff, deleted_buff,
                    history_buff, heap, shared, last, offseq >>

\* the controller appends the move numbered after the last one
KifuAppend ==
    \E nb \in {TailNumber(obs.nodes) + 1} :
        KifuCall("append", nb,
                 IF PrepareFails(obs.nodes) THEN "IndexError" ELSE NoErr,
                 kifu_append(obs.nodes, NewId, nb), <<>>)

KifuInsert ==
    \E position \in 1 .. TailNumber(obs.nodes) + 1 :
        KifuCall("insert", position,
                 IF PrepareFails(obs.nodes) THEN "IndexError" ELSE NoErr,
                 kifu_insert(obs.nodes, NewId, position), obs.nodes)

KifuDelete ==
    \E nb \in 0 .. TailNumber(obs.nodes) + 1 :
        KifuCall(IF obs.op = "insert" /\ obs.arg = nb THEN "insert-delete" ELSE "delete",
                 nb, NoErr, kifu_delete(obs.nodes, nb),
                 IF obs.op = "insert" /\ obs.arg = nb THEN obs.orig ELSE <<>>)

NextKifu == KifuAppend \/ KifuInsert \/ KifuDelete

SpecKifu == InitKifu /\ [][NextKifu]_vars

\* the moves of the record carry, in order, the numbers 1..N
MovesNumbered(nodes) ==
    \A i \in 1 .. Len(nodes) :
        nodes[i].mv => nodes[i].mn = Cardinality({j \in 1 .. i : nodes[j].mv})

\* C17: for a record whose moves are numbered 1..N and k in 1..N+1,
\* insert(move, k) then delete of the move numbered k leaves the same
\* nodes in the same order with the same numbers.
C17_InsertDeleteRoundTrip ==
    (obs.op = "insert-delete" /\ MovesNumbered(obs.orig)) => obs.nodes = obs.orig

\* node n of the record before the call, as the call must have left it
\* when it adds delta to the numbers from number k on
Renumbered(n, k, delta) == IF n.mn >= k THEN [n EXCEPT !.mn = @ + delta] ELSE n

C19_InsertAtTailIsAppend ==
    (/\ obs.op = "insert"
     /\ obs.err = NoErr
     /\ obs.arg = TailNumber(obs.prev) + 1)
        => /\ Len(obs.nodes) = Len(obs.prev) + 1
           /\ SubSeq(obs.nodes, 1, Len(obs.prev)) = obs.prev
           /\ obs.nodes[Len(obs.nodes)].mv
           /\ obs.nodes[Len(obs.nodes)].mn = obs.arg

\* C20: delete(move) removes the node whose move number is move.number
\* (the first such move), decrements by one the number of every node after
\* it and leaves the nodes before it untouched; when no move carries that
\* number the record is unchanged.
C20_DeleteRemovesAndRenumbers ==
    (obs.op \in {"delete", "insert-delete"})
        => IF \E q \in 1 .. Len(obs.prev) : obs.prev[q].mv /\ obs.prev[q].mn = obs.arg
           THEN /\ Len(obs.nodes) = Len(obs.prev) - 1
                /\ \E p \in 1 .. Len(obs.prev) :
                      /\ obs.prev[p].mv /\ obs.prev[p].mn = obs.arg
                      /\ \A j \in 1 .. p - 1 : ~(obs.prev[j].mv /\ obs.prev[j].mn = obs.arg)
                      /\ \A i \in 1 .. p - 1 : obs.nodes[i] = obs.prev[i]
                      /\ \A i \in p + 1 .. Len(obs.prev) :
                            obs.nodes[i - 1] = [obs.prev[i] EXCEPT !.mn = @ - 1]
           ELSE obs.nodes = obs.prev

\* delete of move 1 from context node, move 1, move 2: the old move 2 is
\* second and numbered 1
C20_Witness ==
    /\ obs.op = "delete"
    /\ obs.arg = 1
    /\ obs.prev = Opened(<<FALSE, TRUE, TRUE>>, 3)
    /\ Len(obs.nodes) = 2
    /\ obs.nodes[1] = obs.prev[1]
    /\ obs.nodes[2].id = 3
    /\ obs.nodes[2].mn = 1

\* C21: after any sequence of append (of the next-numbered move),
\* insert(move, k) with 1 <= k <= n + 1 and delete of an existing move, the
\* numbers of the move nodes read in node order are exactly 1, 2, ..., n.
C21_MoveNumbersContiguous == MovesNumbered(obs.nodes)

\* ------------------------------------------------------------ Record queries
\* The nodes of a record with their colour properties: b and w are the
\* points of the properties B and W of the node, NoPt for a property the
\* node does not have; mv tells whether the node has one of them.
NoPt == << -1, -1 >>
RecPoints == { <<0, 0>>, <<1, 1>> }
NodeKinds == (RecPoints \cup {NoPt}) \X (RecPoints \cup {NoPt})
NoNode == -1    \* None for a node index
NoBound == -1   \* None for upbound

\* the record parsed from a file whose nodes have the properties of kinds,
\* numbered as in Opened
Loaded(kinds) ==
    [i \in 1 .. Len(kinds) |->
        [id |-> i, mv |-> kinds[i] # <<NoPt, NoPt>>,
         mn |-> Opened([j \in 1 .. Len(kinds) |-> kinds[j] # <<NoPt, NoPt>>], Len(kinds))[i].mn,
         b |-> kinds[i][1], w |-> kinds[i][2]]]

\* NodeGl.getmove: the property B first, then W, numbered MN; NoMove for
\* None
getmove(node) ==
    IF node.b # NoPt THEN Mv(B, node.b[1], node.b[2], node.mn)
    ELSE IF node.w # NoPt THEN Mv(W, node.w[1], node.w[2], node.mn)
    ELSE NoMove

\* the loop of locate from index i down to 0 (indices count from 0 as in
\* the source): the first node met whose move is at (x, y)
RECURSIVE LocateFrom(_, _, _, _)
LocateFrom(nodes, x, y, i) ==
    IF i < 0 THEN NoNode
    ELSE IF nodes[i + 1].mv /\ getmove(nodes[i + 1]).x = x /\ getmove(nodes[i + 1]).y = y
    THEN i
    ELSE LocateFrom(nodes, x, y, i - 1)

\* Kifu.locate: start = upbound if upbound else len(self) - 1, an upbound
\* of None and an upbound of 0 both being false
locate(nodes, x, y, upbound) ==
    LocateFrom(nodes, x, y,
               IF upbound = NoBound \/ upbound = 0 THEN Len(nodes) - 1 ELSE upbound)

\* the loop of get_move_seq from node index i on
RECURSIVE SeqFrom(_, _, _, _)
SeqFrom(nodes, i, first, lastnb) ==
    IF i >= Len(nodes) THEN <<>>
    ELSE IF nodes[i + 1].mv /\ first <= nodes[i + 1].mn /\ nodes[i + 1].mn <= lastnb
    THEN IF nodes[i + 1].mn = lastnb
         THEN << getmove(nodes[i + 1]) >>
         ELSE << getmove(nodes[i + 1]) >> \o SeqFrom(nodes, i + 1, first, lastnb)
    ELSE SeqFrom(nodes, i + 1, first, lastnb)

\* Kifu.get_move_seq(first, last): for i in range(first, len(self))
get_move_seq(nodes, first, lastnb) == SeqFrom(nodes, first, first, lastnb)

\* the loop of lastmove from index i down to 1: range(-1, -len(self), -1)
\* ends before the index -len(self) of the first node
RECURSIVE LastFrom(_, _)
LastFrom(nodes, i) ==
    IF i < 1 THEN NoMove
    ELSE IF nodes[i + 1].mv THEN getmove(nodes[i + 1])
    ELSE LastFrom(nodes, i - 1)

\* Kifu.lastmove
lastmove(nodes) == LastFrom(nodes, Len(nodes) - 1)

\* Kifu.next_color
next_color(nodes) ==
    IF lastmove(nodes) # NoMove
    THEN IF lastmove(nodes).color = W THEN B ELSE W
    ELSE B

\* --------------------------------------------------------------- SpecQuery
\* A record opened from a file of at most MaxNodes nodes, then the queries
\* on it.  obs is [nodes |-> the record, op |-> the last query,
\* args |-> its arguments, res |-> what it returned].
Files == UNION { [1 .. n -> NodeKinds] : n \in 1 .. MaxNodes }

InitQuery ==
    /\ InitEngine
    /\ \E kinds \in Files :
          obs = [nodes |-> Loaded(kinds), op |-> "open", args |-> <<>>, res |-> <<>>]

Query(op, args, res) ==
    /\ obs' = [obs EXCEPT !.op = op, !.args = args, !.res = res]
    /\ UNCHANGED << stones, deleted, history, stones_buff, deleted_buff,
                    history_buff, heap, shared, last, offseq >>

QueryLocate ==
    \E p \in RecPoints, upbound \in (0 .. Len(obs.nodes) - 1) \cup {NoBound} :
        Query("locate", <<p[1], p[2], upbound>>, locate(obs.nodes, p[1], p[2], upbound))

QuerySeq ==
    \E first \in 1 .. MaxNodes, lastnb \in 1 .. MaxNodes :
        /\ first <= lastnb
        /\ Query("get_move_seq", <<first, lastnb>>, get_move_seq(obs.nodes, first, lastnb))

QueryNextColor ==
    \E nodes \in {obs.nodes} : Query("next_color", <<>>, next_color(nodes))

NextQuery == QueryLocate \/ QuerySeq \/ QueryNextColor

SpecQuery == InitQuery /\ [][NextQuery]_vars

\* the node indices (from 0) at or below bound whose move is at (x, y)
NodesAt(nodes, x, y, bound) ==
    { i \in 0 .. bound :
        nodes[i + 1].mv /\ getmove(nodes[i + 1]).x = x /\ getmove(nodes[i + 1]).y = y }

\* C22: locate(x, y, upper_bound) returns the node of greatest index not
\* above upper_bound whose move is at (x, y), for every upper_bound from 0
\* to the tail index, and nothing when there is no such node; without
\* upper_bound the bound is the tail index.
C22_LocateGreatestIndexUpToBound ==
    obs.op = "locate" =>
        LET bound == IF obs.args[3] = NoBound THEN Len(obs.nodes) - 1 ELSE obs.args[3]
            at == NodesAt(obs.nodes, obs.args[1], obs.args[2], bound)
        IN  IF at = {} THEN obs.res = NoNode
            ELSE obs.res \in at /\ \A i \in at : i <= obs.res

\* the moves of the nodes i .. Len(nodes) whose number lies in
\* first .. lastnb, in node order
RECURSIVE MovesNumberedIn(_, _, _, _)
MovesNumberedIn(nodes, i, first, lastnb) ==
    IF i > Len(nodes) THEN <<>>
    ELSE (IF nodes[i].mv /\ first <= nodes[i].mn /\ nodes[i].mn <= lastnb
          THEN << getmove(nodes[i]) >> ELSE <<>>)
         \o MovesNumberedIn(nodes, i + 1, first, lastnb)

\* C23: on every record, with or without a first node that is not a move,
\* and for every 1 <= first <= last, get_move_seq(first, last) returns in
\* node order exactly the moves whose number lies in first .. last.
C23_MoveSeqIsMovesNumberedInRange ==
    obs.op = "get_move_seq" =>
        obs.res = MovesNumberedIn(obs.nodes, 1, obs.args[1], obs.args[2])

\* C24: next_color() returns Black on a record without move node, and
\* otherwise the colour opposite to the colour of the last move node.
C24_NextColorOppositeOfLastMove ==
    obs.op = "next_color" =>
        IF \A i \in 1 .. Len(obs.nodes) : ~obs.nodes[i].mv
        THEN obs.res = B
        ELSE \E i \in 1 .. Len(obs.nodes) :
                /\ obs.nodes[i].mv
                /\ \A j \in i + 1 .. Len(obs.nodes) : ~obs.nodes[j].mv
                /\ obs.res = enemy_of(getmove(obs.nodes[i]).color)

\* ---------------------------------------------------------------- SpecFlag
\* The modified flag of a record: the calls that change the record, and
\* save.

\* the node id of nodes gets the colour property of a new move
WithStone(nodes, id, color, pt) ==
    [i \in 1 .. Len(nodes) |->
        IF nodes[i].id = id
        THEN [id |-> id, mv |-> TRUE, mn |-> nodes[i].mn,
              b |-> IF color = B THEN pt ELSE NoPt, w |-> IF color = W THEN pt ELSE NoPt]
        ELSE nodes[i]]

\* Kifu.relocate(origin, dest): the node found at the point of origin gets
\* the point of dest as its property of the colour of origin
relocate(nodes, color, pt, dest) ==
    IF locate(nodes, pt[1], pt[2], NoBound) = NoNode THEN nodes
    ELSE [nodes EXCEPT ![locate(nodes, pt[1], pt[2], NoBound) + 1] =
             IF color = B THEN [@ EXCEPT !.b = dest] ELSE [@ EXCEPT !.w = dest]]

\* the node update_mv works on: the one given (an index), else the one
\* found at the point of the move
UpdatedIdx(nodes, pt, node) ==
    IF node = NoNode THEN locate(nodes, pt[1], pt[2], NoBound) ELSE node

\* Kifu.update_mv(move, node): both colour properties are deleted, then
\* _prepare sets the property of the colour of the move and number(nb)
\* sets MN when the move has a number
update_mv(nodes, color, pt, nb, node) ==
    IF UpdatedIdx(nodes, pt, node) = NoNode THEN nodes
    ELSE [nodes EXCEPT ![UpdatedIdx(nodes, pt, node) + 1] =
             [@ EXCEPT !.b = IF color = B THEN pt ELSE NoPt,
                       !.w = IF color = W THEN pt ELSE NoPt,
                       !.mv = TRUE,
                       !.mn = IF 0 <= nb THEN nb ELSE @]]

\* a save that clears the flag whether or not the file was written
saveClearsAlways(written, modified) == FALSE

\* Kifu.save: the flag is cleared once the file has been written
save(written, modified) == IF written THEN FALSE ELSE modified

FlagKinds == {<<NoPt, NoPt>>} \cup {<<p, NoPt>> : p \in RecPoints} \cup {<<NoPt, p>> : p \in RecPoints}
FlagFiles == UNION { [1 .. n -> FlagKinds] : n \in 1 .. MaxFlagNodes }

\* obs is [nodes |-> the record, modified, sgffile |-> whether a file is
\* defined, op |-> the last call, err |-> the exception it raised,
\* ops |-> the calls made that change records].
\* A record is created new, with its context node and no file, or opened
\* from a file.
InitFlag ==
    /\ InitEngine
    /\ \/ obs = [nodes |-> Loaded(<< <<NoPt, NoPt>> >>), modified |-> FALSE, sgffile |-> FALSE,
                 op |-> "new", err |-> NoErr, ops |-> 0]
       \/ \E kinds \in FlagFiles :
             obs = [nodes |-> Loaded(kinds), modified |-> FALSE, sgffile |-> TRUE,
                    op |-> "open", err |-> NoErr, ops |-> 0]

\* a call op that raised err or returned (NoErr) leaving nodes, setting
\* the flag when sets holds
FlagCall(op, err, nodes, sets) ==
    /\ obs.ops < MaxFlagOps
    /\ obs' = [obs EXCEPT !.nodes = nodes, !.op = op, !.err = err, !.ops = @ + 1,
                          !.modified = IF sets THEN TRUE ELSE @]
    /\ UNCHANGED << stones, deleted, history, stones_buff, deleted_buff,
                    history_buff, heap, shared, last, offseq >>

FlagNewId == MaxFlagNodes + obs.ops + 1

\* the controller appends the move numbered after the last one
FlagAppend ==
    \E nb \in {TailNumber(obs.nodes) + 1}, color \in {B, W}, pt \in RecPoints :
        FlagCall("append", IF PrepareFails(obs.nodes) THEN "IndexError" ELSE NoErr,
                 WithStone(kifu_append(obs.nodes, FlagNewId, nb), FlagNewId, color, pt),
                 ~PrepareFails(obs.nodes))

FlagInsert ==
    \E color \in {B, W}, pt \in RecPoints, position \in 1 .. TailNumber(obs.nodes) + 1 :
        FlagCall("insert", IF PrepareFails(obs.nodes) THEN "IndexError" ELSE NoErr,
                 WithStone(kifu_insert(obs.nodes, FlagNewId, position), FlagNewId, color, pt),
                 ~PrepareFails(obs.nodes))

FlagDelete ==
    \E nb \in 0 .. TailNumber(obs.nodes) + 1 :
        FlagCall("delete", NoErr, kifu_delete(obs.nodes, nb), DeleteIdx(obs.nodes, nb) # 0)

FlagRelocate ==
    \E nodes \in {obs.nodes}, color \in {B, W}, pt \in RecPoints, dest \in RecPoints :
        FlagCall("relocate",
                 IF locate(nodes, pt[1], pt[2], NoBound) = NoNode
                 THEN "AttributeError" ELSE NoErr,
                 relocate(nodes, color, pt, dest),
                 locate(nodes, pt[1], pt[2], NoBound) # NoNode)

FlagUpdate ==
    \E color \in {B, W}, pt \in RecPoints, nb \in {-1, 1},
       node \in (0 .. Len(obs.nodes) - 1) \cup {NoNode} :
        FlagCall("update_mv",
                 IF UpdatedIdx(obs.nodes, pt, node) = NoNode THEN "AttributeError" ELSE NoErr,
                 update_mv(obs.nodes, color, pt, nb, node),
                 UpdatedIdx(obs.nodes, pt, node) # NoNode)

\* Kifu.save: SgfWarning without a file; with one, open() either raises
\* IOError or the record is written and the flag cleared
FlagSave ==
    \E written \in IF obs.sgffile THEN BOOLEAN ELSE {FALSE} :
        /\ obs' = [obs EXCEPT !.op = "save",
                              !.err = IF ~obs.sgffile THEN "SgfWarning"
                                      ELSE IF written THEN NoErr ELSE "IOError",
                              !.modified = save(written, obs.modified)]
        /\ UNCHANGED << stones, deleted, history, stones_buff, deleted_buff,
                        history_buff, heap, shared, last, offseq >>

\* Controller._save: the user names the file, then save
FlagSaveAs ==
    \E written \in BOOLEAN :
        /\ obs' = [obs EXCEPT !.op = "save", !.sgffile = TRUE,
                              !.err = IF written THEN NoErr ELSE "IOError",
                              !.modified = save(written, obs.modified)]
        /\ UNCHANGED << stones, deleted, history, stones_buff, deleted_buff,
                        history_buff, heap, shared, last, offseq >>

NextFlag ==
    \/ FlagAppend \/ FlagInsert \/ FlagDelete \/ FlagRelocate \/ FlagUpdate
    \/ FlagSave \/ FlagSaveAs

SpecFlag == InitFlag /\ [][NextFlag]_vars

\* C25: the modified flag is false after creation or load; it becomes true
\* on every append, insert, relocate and update that returns and on every
\* delete that removes a node; once true it stays true until a save()
\* that succeeds, a save() that fails leaving it as it was.
C25_ModifiedUntilSaved ==
    /\ [](obs.op \in {"new", "open"} => ~obs.modified)
    /\ [][ /\ obs'.op \in {"append", "insert", "relocate", "update_mv"} /\ obs'.err = NoErr
              => obs'.modified
           /\ obs'.op = "delete" /\ Len(obs'.nodes) < Len(obs.nodes) => obs'.modified
           /\ obs.modified /\ ~(obs'.op = "save" /\ obs'.err = NoErr) => obs'.modified
           /\ obs'.op = "save" /\ obs'.err # NoErr => obs'.modified = obs.modified
           /\ obs'.op = "save" /\ obs'.err = NoErr => ~obs'.modified ]_vars

\* a record changed by a call, then a save that failed on the record
\* without file, its flag still set
C25_Witness ==
    /\ obs.op = "save" /\ obs.err = "SgfWarning"
    /\ obs.modified /\ obs.ops >= 1

\* ------------------------------------------------------------------ Parser
\* A text is a sequence of characters, each a string of length one.
BS == "\\"
NL == "\n"
Digit == << "0", "1", "2", "3", "4", "5", "6", "7", "8", "9" >>

\* ord(char), for the characters the texts are made of
ord(char) ==
    CASE char = NL -> 10 [] char = " " -> 32 [] char = "(" -> 40 [] char = ")" -> 41
      [] char = "-" -> 45 [] char = ";" -> 59 [] char = "B" -> 66 [] char = "C" -> 67
      [] char = "M" -> 77 [] char = "N" -> 78 [] char = "W" -> 87 [] char = "[" -> 91
      [] char = BS -> 92 [] char = "]" -> 93 [] char = "a" -> 97 [] char = "b" -> 98
      [] \E d \in 1 .. 10 : char = Digit[d] -> 47 + (CHOOSE d \in 1 .. 10 : char = Digit[d])

whitespace(char) == char \in {" ", "\t", "\r", NL}
ucletter(char) == 65 <= ord(char) /\ ord(char) <= 90
lcletter(char) == 97 <= ord(char) /\ ord(char) <= 122

\* An exception raised out of parse: ParseException(ch, state) in the
\* loop, ParseException(state) after it (ch empty), or the exception of a
\* handler (IndexError, ValueError)
Exc(type, ch, state) == [type |-> type, ch |-> ch, state |-> state]
NoExc == Exc(NoErr, "", -1)

\* A property value: a string read from the text, or the int of MN
StrVal(s) == [isint |-> FALSE, s |-> s, n |-> 0]
IntVal(n) == [isint |-> TRUE, s |-> <<>>, n |-> n]

\* "%s" % n of an int: its decimal digits
RECURSIVE DigitsOf(_)
DigitsOf(n) ==
    IF n < 0 THEN << "-" >> \o DigitsOf(0 - n)
    ELSE IF n < 10 THEN << Digit[n + 1] >>
    ELSE DigitsOf(n \div 10) \o << Digit[(n % 10) + 1] >>

IsDigits(s) == Len(s) > 0 /\ \A i \in 1 .. Len(s) : 48 <= ord(s[i]) /\ ord(s[i]) <= 57

\* s.strip(): s without the whitespace at its ends
RECURSIVE Strip(_)
Strip(s) ==
    IF Len(s) = 0 THEN s
    ELSE IF whitespace(s[1]) THEN Strip(Tail(s))
    ELSE IF whitespace(s[Len(s)]) THEN Strip(SubSeq(s, 1, Len(s) - 1))
    ELSE s

\* the value of a string of decimal digits
RECURSIVE ValueOf(_)
ValueOf(s) ==
    IF Len(s) = 0 THEN 0
    ELSE 10 * ValueOf(SubSeq(s, 1, Len(s) - 1)) + (ord(s[Len(s)]) - 48)

\* int(s): the value of the digits of s, whitespace around them being
\* skipped (the texts here hold no sign and no underscore)
IntOf(s) == ValueOf(Strip(s))

\* int(s) raises ValueError when s is not made of digits
IntFails(s) == ~IsDigits(Strip(s))

\* The state of a parse: the scanner (state, prop_ident, prop_value), the
\* objects its handlers have built and the handler calls made.
\*   trees: the game trees in the order they were opened, each with
\*          parent (an index into trees, 0 for the collection) and nodes;
\*          a node is the sequence of its properties [key, vals] in
\*          insertion order
\*   cur:   the tree whose handlers are bound (0: the collection's)
\*   cp, cpv: current_property and current_prop_value of the node
\*   exc:   the exception parse has raised
ParserInit ==
    [state |-> 0, ident |-> <<>>, value |-> <<>>, trees |-> <<>>, cur |-> 0,
     cp |-> <<>>, cpv |-> <<>>, exc |-> NoExc, events |-> <<>>]

Raised(ps) == ps.exc # NoExc

Event(ps, name, arg) == [ps EXCEPT !.events = Append(@, <<name, arg>>)]

\* Collection.my_start_gametree / GameTree.my_start_gametree: a new tree
\* under the owner of the handler, whose setup binds the handlers
start_gametree(ps) ==
    IF Raised(ps) THEN ps
    ELSE [Event(ps, "start_gametree", <<>>) EXCEPT
            !.trees = Append(@, [parent |-> ps.cur, nodes |-> <<>>]),
            !.cur = Len(ps.trees) + 1]

\* GameTree.my_end_gametree: self.parent.setup().  After the setup of the
\* collection end_gametree is still bound to the tree that was closed,
\* whose parent is the collection.
end_gametree(ps) ==
    IF Raised(ps) THEN ps
    ELSE [Event(ps, "end_gametree", <<>>) EXCEPT
            !.cur = IF ps.cur = 0 THEN 0 ELSE ps.trees[ps.cur].parent]

\* GameTree.my_start_node
start_node(ps) ==
    IF Raised(ps) THEN ps
    ELSE [Event(ps, "start_node", <<>>) EXCEPT !.trees[ps.cur].nodes = Append(@, <<>>)]

\* Node.my_start_property
start_property(ps, identifier) ==
    IF Raised(ps) THEN ps
    ELSE [Event(ps, "start_property", identifier) EXCEPT !.cp = identifier, !.cpv = <<>>]

\* Node.my_add_prop_value
add_prop_value(ps, value) ==
    IF Raised(ps) THEN ps
    ELSE [Event(ps, "add_prop_value", value) EXCEPT !.cpv = Append(@, StrVal(value))]

HasKey(props, key) == \E i \in 1 .. Len(props) : props[i].key = key

ValsOf(props, key) == props[CHOOSE i \in 1 .. Len(props) : props[i].key = key].vals

\* self.properties[key] = vals: a key already there keeps its place
SetProp(props, key, vals) ==
    IF HasKey(props, key)
    THEN [i \in 1 .. Len(props) |->
            IF props[i].key = key THEN [key |-> key, vals |-> vals] ELSE props[i]]
    ELSE Append(props, [key |-> key, vals |-> vals])

\* NodeGl.my_end_property
end_property(ps) ==
    IF Raised(ps) THEN ps
    ELSE IF ps.cp = <<"M", "N">> /\ IntFails(ps.cpv[1].s)
    THEN [Event(ps, "end_property", <<>>) EXCEPT !.exc = Exc("ValueError", "", -1)]
    ELSE [Event(ps, "end_property", <<>>) EXCEPT
            !.trees[ps.cur].nodes[Len(ps.trees[ps.cur].nodes)] =
                SetProp(@, ps.cp,
                        IF ps.cp = <<"M", "N">>
                        THEN << IntVal(IntOf(ps.cpv[1].s)) >> ELSE ps.cpv)]

\* the position NodeGl.getmove reads: the first value of B, else of W
HasPos(props) == HasKey(props, <<"B">>) \/ HasKey(props, <<"W">>)
PosOf(props) ==
    IF HasKey(props, <<"B">>) THEN ValsOf(props, <<"B">>)[1].s ELSE ValsOf(props, <<"W">>)[1].s
ColorOf(props) == IF HasKey(props, <<"B">>) THEN B ELSE W

\* NodeGl.getmove of a node with a position: Move("sgf", (color, pos[0],
\* pos[1])), an empty position being '--'; pos[1] raises IndexError on a
\* position of one character
MoveFails(props) == HasPos(props) /\ Len(PosOf(props)) = 1
MoveOf(props, nb) ==
    IF Len(PosOf(props)) = 0 THEN Mv(ColorOf(props), ord("-") - 97, ord("-") - 97, nb)
    ELSE Mv(ColorOf(props), ord(PosOf(props)[1]) - 97, ord(PosOf(props)[2]) - 97, nb)

\* previous of the node that GameTree.my_start_node last created in tree
\* t: the node before it, else the last node of a parent tree; its MN, 0
\* without previous
PreviousNumber(trees, t) ==
    IF Len(trees[t].nodes) > 1
    THEN ValsOf(trees[t].nodes[Len(trees[t].nodes) - 1], <<"M", "N">>)[1].n
    ELSE IF trees[t].parent # 0
    THEN ValsOf(trees[trees[t].parent].nodes[Len(trees[trees[t].parent].nodes)],
                <<"M", "N">>)[1].n
    ELSE 0

\* NodeGl.my_end_node: number(), which gives MN to a node without it (the
\* SgfWarning of getmove, for setup properties without move, is caught and
\* the number not incremented, as for a node without move), then
\* self.parent.setup()
end_node(ps) ==
    IF Raised(ps) THEN ps
    ELSE IF HasKey(ps.trees[ps.cur].nodes[Len(ps.trees[ps.cur].nodes)], <<"M", "N">>)
    THEN Event(ps, "end_node", <<>>)
    ELSE IF MoveFails(ps.trees[ps.cur].nodes[Len(ps.trees[ps.cur].nodes)])
    THEN [Event(ps, "end_node", <<>>) EXCEPT !.exc = Exc("IndexError", "", -1)]
    ELSE [Event(ps, "end_node", <<>>) EXCEPT
            !.trees[ps.cur].nodes[Len(ps.trees[ps.cur].nodes)] =
                Append(@, [key |-> <<"M", "N">>,
                           vals |-> << IntVal(PreviousNumber(ps.trees, ps.cur)
                                              + IF HasPos(@) THEN 1 ELSE 0) >>])]

Goto(ps, state) == IF Raised(ps) THEN ps ELSE [ps EXCEPT !.state = state]

ParseError(ps, ch) == [ps EXCEPT !.exc = Exc("ParseException", ch, ps.state)]

\* one turn of the loop of Parser.parse, on the character ch
ParseStep(ps, ch) ==
    IF Raised(ps) THEN ps
    ELSE CASE ps.state = 0 ->
                IF whitespace(ch) THEN Goto(ps, 0)
                ELSE IF ch = "(" THEN Goto(start_gametree(ps), 1)
                ELSE Goto(ps, 0)
           [] ps.state = 1 ->
                IF whitespace(ch) THEN Goto(ps, 1)
                ELSE IF ch = ";" THEN Goto(start_node(ps), 2)
                ELSE ParseError(ps, ch)
           [] ps.state = 2 ->
                IF whitespace(ch) THEN Goto(ps, 2)
                ELSE IF ucletter(ch) THEN Goto([ps EXCEPT !.ident = <<ch>>], 3)
                ELSE IF ch = ";" THEN Goto(start_node(end_node(ps)), 2)
                ELSE IF ch = "(" THEN Goto(start_gametree(end_node(ps)), 1)
                ELSE IF ch = ")" THEN Goto(end_gametree(end_node(ps)), 4)
                ELSE ParseError(ps, ch)
           [] ps.state = 3 ->
                IF ucletter(ch) THEN Goto([ps EXCEPT !.ident = Append(@, ch)], 3)
                ELSE IF lcletter(ch) THEN Goto(ps, 3)
                ELSE IF ch = "["
                THEN Goto([start_property(ps, ps.ident) EXCEPT !.value = <<>>], 5)
                ELSE ParseError(ps, ch)
           [] ps.state = 4 ->
                IF ch = ")" THEN Goto(end_gametree(ps), 4)
                ELSE IF whitespace(ch) THEN Goto(ps, 4)
                ELSE IF ch = "(" THEN Goto(start_gametree(ps), 1)
                ELSE ParseError(ps, ch)
           [] ps.state = 5 ->
                IF ch = BS THEN Goto(ps, 6)
                ELSE IF ch = "]" THEN Goto(add_prop_value(ps, ps.value), 7)
                ELSE [ps EXCEPT !.value = Append(@, ch)]
           [] ps.state = 6 ->
                Goto([ps EXCEPT !.value = Append(@, ch)], 5)
           [] ps.state = 7 ->
                IF whitespace(ch) THEN Goto(ps, 7)
                ELSE IF ch = "[" THEN Goto([ps EXCEPT !.value = <<>>], 5)
                ELSE IF ch = ";" THEN Goto(start_node(end_node(end_property(ps))), 2)
                ELSE IF ucletter(ch)
                THEN Goto([end_property(ps) EXCEPT !.ident = <<ch>>], 3)
                ELSE IF ch = ")" THEN Goto(end_gametree(end_node(end_property(ps))), 4)
                ELSE IF ch = "(" THEN Goto(start_gametree(end_node(end_property(ps))), 1)
                ELSE ParseError(ps, ch)

\* the loop of Parser.parse over the characters i .. Len(text) of text
RECURSIVE ParseFrom(_, _, _)
ParseFrom(ps, text, i) ==
    IF i > Len(text) THEN ps ELSE ParseFrom(ParseStep(ps, text[i]), text, i + 1)

\* a final check that lets a stream end in a node
EndOfStreamInNode(ps) ==
    IF Raised(ps) \/ ps.state \in {2, 4, 7} THEN ps
    ELSE [ps EXCEPT !.exc = Exc("ParseException", "", ps.state)]

\* after the loop: if state != 4: raise ParseException(state)
EndOfStream(ps) ==
    IF Raised(ps) \/ ps.state = 4 THEN ps
    ELSE [ps EXCEPT !.exc = Exc("ParseException", "", ps.state)]

\* Parser.parse(sgf_string)
parse(text) == EndOfStream(ParseFrom(ParserInit, text, 1))

\* the concatenation of the texts F[i], i in from .. to
RECURSIVE Cat(_, _, _)
Cat(F, from, to) == IF from > to THEN <<>> ELSE F[from] \o Cat(F, from + 1, to)

\* "\\\\".join(value.split("\\")): each backslash is written twice
EscapeBackslash(value) ==
    Cat([i \in 1 .. Len(value) |-> IF value[i] = BS THEN <<BS, BS>> ELSE <<value[i]>>],
        1, Len(value))

\* an output that writes closing brackets as they are
EscapeBracketNot(value) == value

\* "\]".join(value.split("]")): a backslash before each closing bracket
EscapeBracket(value) ==
    Cat([i \in 1 .. Len(value) |-> IF value[i] = "]" THEN <<BS, "]">> ELSE <<value[i]>>],
        1, Len(value))

\* f.write("[%s]" % value): an int as its digits, a string escaped
OutValue(val) ==
    << "[" >> \o (IF val.isint THEN DigitsOf(val.n)
                  ELSE EscapeBracket(EscapeBackslash(val.s))) \o << "]" >>

\* NodeGl.output
OutNode(props) ==
    << ";" >> \o Cat([i \in 1 .. Len(props) |->
                        props[i].key
                        \o Cat([j \in 1 .. Len(props[i].vals) |-> OutValue(props[i].vals[j])],
                               1, Len(props[i].vals))
                        \o << NL >>],
                     1, Len(props))

\* GameTree.output of tree t: "(", its nodes, its children, ")"; the
\* children of t are the trees opened under it, in that order
RECURSIVE OutTree(_, _)
OutTree(trees, t) ==
    << "(" >>
    \o Cat([i \in 1 .. Len(trees[t].nodes) |-> OutNode(trees[t].nodes[i])],
           1, Len(trees[t].nodes))
    \o Cat([c \in 1 .. Len(trees) |->
               IF trees[c].parent = t THEN OutTree(trees, c) ELSE <<>>], 1, Len(trees))
    \o << ")" >>

\* Collection.output
output(trees) ==
    Cat([c \in 1 .. Len(trees) |-> IF trees[c].parent = 0 THEN OutTree(trees, c) ELSE <<>>],
        1, Len(trees))

\* --------------------------------------------------------------- SpecParser
\* A text is fed to parse piece by piece, a piece being one character or
\* a few; then the stream ends.  obs is [ps |-> the state of the parse,
\* n |-> the pieces fed, fed |-> the last one, was |-> the scanner state
\* before it, ended |-> whether the stream has ended].
Pieces ==
    { <<"(">>, <<")">>, <<";">>, <<"[">>, <<"]">>, <<BS>>, <<"B">>, <<"a">>, <<" ">>,
      <<"1">>, <<"(", ";">>, <<"B", "[", "a", "a", "]">>, <<"W", "[", "b", "b", "]">>,
      <<"C", "[">>, <<"M", "N", "[">> }

InitParser ==
    /\ InitEngine
    /\ obs = [ps |-> ParserInit, n |-> 0, fed |-> <<>>, was |-> 0, ended |-> FALSE]

Feed ==
    /\ ~obs.ended /\ ~Raised(obs.ps) /\ obs.n < MaxPieces
    /\ \E piece \in Pieces :
          obs' = [ps |-> ParseFrom(obs.ps, piece, 1), n |-> obs.n + 1, fed |-> piece,
                  was |-> obs.ps.state, ended |-> FALSE]
    /\ UNCHANGED << stones, deleted, history, stones_buff, deleted_buff,
                    history_buff, heap, shared, last, offseq >>

End ==
    /\ ~obs.ended /\ ~Raised(obs.ps)
    /\ obs' = [obs EXCEPT !.ps = EndOfStream(obs.ps), !.ended = TRUE, !.fed = <<>>,
                          !.was = obs.ps.state]
    /\ UNCHANGED << stones, deleted, history, stones_buff, deleted_buff,
                    history_buff, heap, shared, last, offseq >>

NextParser == Feed \/ End

SpecParser == InitParser /\ [][NextParser]_vars

Accepted == obs.ended /\ ~Raised(obs.ps)

\* the moves of the nodes of the trees, each with its number, colour and
\* position, in the order of the nodes
MovesOfTrees(trees) ==
    [t \in 1 .. Len(trees) |->
        [i \in 1 .. Len(trees[t].nodes) |->
            IF HasPos(trees[t].nodes[i]) /\ ~MoveFails(trees[t].nodes[i])
            THEN MoveOf(trees[t].nodes[i], ValsOf(trees[t].nodes[i], <<"M", "N">>)[1].n)
            ELSE NoMove]]

SameTrees(again, trees) ==
    /\ ~Raised(again)
    /\ Len(again.trees) = Len(trees)
    /\ \A t \in 1 .. Len(trees) : Len(again.trees[t].nodes) = Len(trees[t].nodes)
    /\ MovesOfTrees(again.trees) = MovesOfTrees(trees)
    /\ again.trees = trees

\* C26: for any text the parser accepts, the text that output() writes
\* for the parsed trees is accepted too and parses to trees with the same
\* nodes in the same order, the same move numbers, colours and positions
\* and equal property values, backslashes and closing brackets in the
\* values included.
C26_OutputParsesBack ==
    Accepted => SameTrees(parse(output(obs.ps.trees)), obs.ps.trees)

\* an accepted text with a property value that holds a closing bracket
C26_Witness ==
    /\ Accepted
    /\ \E t \in 1 .. Len(obs.ps.trees) : \E i \in 1 .. Len(obs.ps.trees[t].nodes) :
          \E k \in 1 .. Len(obs.ps.trees[t].nodes[i]) :
             \E v \in 1 .. Len(obs.ps.trees[t].nodes[i][k].vals) :
                /\ ~obs.ps.trees[t].nodes[i][k].vals[v].isint
                /\ \E c \in 1 .. Len(obs.ps.trees[t].nodes[i][k].vals[v].s) :
                      obs.ps.trees[t].nodes[i][k].vals[v].s[c] = "]"
    /\ SameTrees(parse(output(obs.ps.trees)), obs.ps.trees)

\* the characters the grammar of the scanner gives a meaning in a state:
\* 0 awaits "(", 1 awaits ";", 2 is in a node, 3 in an identifier, 4 after
\* ")", 5 in a value, 6 after a backslash in a value, 7 after a value
Recognised(state, ch) ==
    CASE state = 0 -> whitespace(ch) \/ ch = "("
      [] state = 1 -> whitespace(ch) \/ ch = ";"
      [] state = 2 -> whitespace(ch) \/ ucletter(ch) \/ ch \in {";", "(", ")"}
      [] state = 3 -> ucletter(ch) \/ lcletter(ch) \/ ch = "["
      [] state = 4 -> whitespace(ch) \/ ch \in {"(", ")"}
      [] state \in {5, 6} -> TRUE
      [] state = 7 -> whitespace(ch) \/ ucletter(ch) \/ ch \in {"[", ";", "(", ")"}

\* C27: in every state of the scanner, the initial one included, a
\* character the state has no transition for makes parse raise
\* ParseException with that character and that state, no handler being
\* called any more.
C27_UnknownCharacterRaises ==
    [][ Len(obs'.fed) = 1 /\ ~Recognised(obs.ps.state, obs'.fed[1])
          => /\ obs'.ps.exc = Exc("ParseException", obs'.fed[1], obs.ps.state)
             /\ obs'.ps.events = obs.ps.events
             /\ obs'.ps.trees = obs.ps.trees ]_vars

\* C28: a stream that ends while the scanner is in a state other than 4
\* makes parse raise ParseException with that state: the empty stream, a
\* stream cut in a node, in an identifier or in a property value.
C28_EndOutsideTreeClosedRaises ==
    obs.ended /\ obs.was # 4 => obs.ps.exc = Exc("ParseException", "", obs.was)

\* a stream cut inside a property value
C28_Witness ==
    /\ obs.ended /\ obs.was = 5 /\ obs.n >= 3
    /\ obs.ps.exc = Exc("ParseException", "", 5)

\* C29: a whitespace character met outside a property value, between an
\* identifier and its opening bracket included, changes nothing: it is
\* accepted and the handlers are called as without it.
C29_WhitespaceOutsideValuesIgnored ==
    [][ obs'.fed = <<" ">> /\ obs.ps.state \notin {5, 6} => obs'.ps = obs.ps ]_vars

\* ---------------------------------------------------------------- SpecLoad
\* Kifu(sgffile): a file is written piece by piece, then a record is
\* created from it, from a path that cannot be read, or without file.

\* the comment of the context node: "Recorded with {}.".format(appname)
Recorded ==
    << "R", "e", "c", "o", "r", "d", "e", "d", " ", "w", "i", "t", "h", " ",
       "G", "o", "l", "i", "b", "." >>

\* Kifu._new: the nodes of a new game, its context node alone (SZ, C and
\* the MN that number() gives a first node without move)
NewGame ==
    << << [key |-> <<"S", "Z">>, vals |-> << IntVal(gsize) >>],
          [key |-> <<"C">>, vals |-> << StrVal(Recorded) >>],
          [key |-> <<"M", "N">>, vals |-> << IntVal(0) >>] >> >>

\* a record: its main line game.nodes, whether sgffile is set, modified;
\* made is false when the constructor raised
Record(nodes, sgffile) == [made |-> TRUE, nodes |-> nodes, sgffile |-> sgffile, modified |-> FALSE]
NoRecord == [made |-> FALSE, nodes |-> <<>>, sgffile |-> FALSE, modified |-> FALSE]

\* what Kifu(sgffile, err=err) leaves: the record, the exception that left
\* the constructor, the messages given to err.  found tells whether open()
\* succeeds, parsed is parse(f.read()).
\* _parse catches IOError only: the file that open() cannot read gives a
\* new game and two messages; an exception of parse leaves the
\* constructor; else the game is collection[0].
KifuInit(found, parsed) ==
    IF ~found
    THEN [kifu |-> Record(NewGame, FALSE), exc |-> NoExc,
          errs |-> << "IOError", "Opened new game" >>]
    ELSE IF Raised(parsed)
    THEN [kifu |-> NoRecord, exc |-> parsed.exc, errs |-> <<>>]
    ELSE [kifu |-> Record(parsed.trees[1].nodes, TRUE), exc |-> NoExc, errs |-> <<>>]

\* obs is [text |-> the text of the file, n |-> its pieces, op |-> the
\* last step, kifu, exc, errs |-> what the constructor left].
InitLoad ==
    /\ InitEngine
    /\ obs = [text |-> <<>>, n |-> 0, op |-> "write", kifu |-> NoRecord, exc |-> NoExc,
              errs |-> <<>>]

LoadDone(op, r) == obs' = [obs EXCEPT !.op = op, !.kifu = r.kifu, !.exc = r.exc, !.errs = r.errs]

\* the file gets one more piece of text
Write ==
    /\ obs.op = "write" /\ obs.n < MaxFilePieces
    /\ \E piece \in Pieces : obs' = [obs EXCEPT !.text = @ \o piece, !.n = @ + 1]
    /\ UNCHANGED << stones, deleted, history, stones_buff, deleted_buff,
                    history_buff, heap, shared, last, offseq >>

\* Kifu(sgffile=the path of the file)
OpenFile ==
    /\ obs.op = "write"
    /\ \E text \in {obs.text} : LoadDone("open", KifuInit(TRUE, parse(text)))
    /\ UNCHANGED << stones, deleted, history, stones_buff, deleted_buff,
                    history_buff, heap, shared, last, offseq >>

\* Kifu(sgffile=a path that open() cannot read)
OpenMissing ==
    /\ obs.op = "write"
    /\ \E ps \in {ParserInit} : LoadDone("open-missing", KifuInit(FALSE, ps))
    /\ UNCHANGED << stones, deleted, history, stones_buff, deleted_buff,
                    history_buff, heap, shared, last, offseq >>

\* Kifu(): _new, nothing is given to err
OpenNew ==
    /\ obs.op = "write"
    /\ \E nodes \in {NewGame} :
          LoadDone("new", [kifu |-> Record(nodes, FALSE), exc |-> NoExc, errs |-> <<>>])
    /\ UNCHANGED << stones, deleted, history, stones_buff, deleted_buff,
                    history_buff, heap, shared, last, offseq >>

NextLoad == Write \/ OpenFile \/ OpenMissing \/ OpenNew

SpecLoad == InitLoad /\ [][NextLoad]_vars

\* C30: a record created from a file whose text the parser rejects lets no
\* exception reach the caller: as for a file that cannot be read, the
\* record is a new game (its context node, no file attached) and the
\* failure has been given to the error sink.
C30_RejectedTextFallsBackToNewGame ==
    obs.op = "open" /\ Raised(parse(obs.text)) =>
        /\ obs.exc = NoExc
        /\ obs.kifu = Record(NewGame, FALSE)
        /\ Len(obs.errs) > 0

\* ================================================================
\* Move coordinates (golib/model/move.py)
\* ================================================================
\* gsize of golib_conf.py: the conversions are checked on the full board
CoordSize == 19

TK_TYPE == "tk"
SGF_TYPE == "sgf"
NP_TYPE == "np"
KGS_TYPE == "kgs"
CoordTypes == {TK_TYPE, SGF_TYPE, NP_TYPE, KGS_TYPE}

Upper == << "A", "B", "C", "D", "E", "F", "G", "H", "I", "J", "K", "L", "M",
            "N", "O", "P", "Q", "R", "S", "T", "U", "V", "W", "X", "Y", "Z" >>
Lower == << "a", "b", "c", "d", "e", "f", "g", "h", "i", "j", "k", "l", "m",
            "n", "o", "p", "q", "r", "s", "t", "u", "v", "w", "x", "y", "z" >>

\* chr(code) and ord(char) on the letters
chr(code) ==
    CASE 65 <= code /\ code <= 90 -> Upper[code - 64]
      [] 97 <= code /\ code <= 122 -> Lower[code - 96]

ordLetter(char) ==
    IF \E k \in 1 .. 26 : Upper[k] = char
    THEN 64 + (CHOOSE k \in 1 .. 26 : Upper[k] = char)
    ELSE 96 + (CHOOSE k \in 1 .. 26 : Lower[k] = char)

\* A coordinate is an int (IntVal) or a one-character string (StrVal).
\* int(v) : an int is returned as it is, a string is read in base 10
int(v) == IF v.isint THEN v.n ELSE IntOf(v.s)

\* the kgs column with the letter after 'H' taken from x = 7 on
kgsColumnShiftEarly(x) == chr(x + (IF x < 7 THEN 65 ELSE 66))

\* chr(self.x + (65 if self.x < 8 else 66))
kgsColumn(x) == chr(x + (IF x < 8 THEN 65 ELSE 66))

\* Move._interpret, the number left at its default
interpret(ctype, color, a, b) ==
    CASE ctype = TK_TYPE -> Mv(color, int(a), int(b), -1)
      [] ctype = SGF_TYPE -> Mv(color, ordLetter(a.s[1]) - 97, ordLetter(b.s[1]) - 97, -1)
      [] ctype = NP_TYPE -> Mv(color, b.n, a.n, -1)
      [] ctype = KGS_TYPE ->
            Mv(color,
               ordLetter(a.s[1]) - (IF ordLetter(a.s[1]) < 73 THEN 65 ELSE 66),
               CoordSize - int(b), -1)

\* Move.get_coord
get_coord(move, ctype) ==
    CASE ctype = TK_TYPE -> << IntVal(move.x), IntVal(move.y) >>
      [] ctype = SGF_TYPE -> << StrVal(<< chr(move.x + 97) >>), StrVal(<< chr(move.y + 97) >>) >>
      [] ctype = NP_TYPE -> << IntVal(move.y), IntVal(move.x) >>
      [] ctype = KGS_TYPE -> << StrVal(<< kgsColumn(move.x) >>), IntVal(CoordSize - move.y) >>

\* ---------------------------------------------------------------- SpecCoord
\* A move anywhere on the board; its coordinates are taken in a frame, and
\* a Move is built from them in the same frame.
InitCoord ==
    /\ InitEngine
    /\ \E color \in {B, W, E}, x \in 0 .. CoordSize - 1, y \in 0 .. CoordSize - 1 :
          obs = [move |-> Mv(color, x, y, -1), op |-> "new", ctype |-> TK_TYPE,
                 coord |-> << IntVal(x), IntVal(y) >>, back |-> Mv(color, x, y, -1)]

GetCoord ==
    \E ctype \in CoordTypes, move \in {obs.move} :
        /\ obs' = [obs EXCEPT !.op = "get_coord", !.ctype = ctype,
                              !.coord = get_coord(move, ctype)]
        /\ UNCHANGED << stones, deleted, history, stones_buff, deleted_buff,
                        history_buff, heap, shared, last, offseq >>

Interpret ==
    /\ obs.op = "get_coord"
    /\ obs' = [obs EXCEPT !.op = "Move",
                          !.back = interpret(obs.ctype, obs.move.color,
                                             obs.coord[1], obs.coord[2])]
    /\ UNCHANGED << stones, deleted, history, stones_buff, deleted_buff,
                    history_buff, heap, shared, last, offseq >>

NextCoord == GetCoord \/ Interpret

SpecCoord == InitCoord /\ [][NextCoord]_vars

\* C31: a Move built from the coordinates get_coord returns, in the same
\* frame (tk, sgf, np or kgs), equals the original move (same colour, x and
\* y), for every colour and every position of the board; the kgs column
\* letter is never 'I'.
C31_CoordRoundTrip ==
    /\ obs.op = "Move" => MoveEq(obs.back, obs.move)
    /\ obs.op = "get_coord" /\ obs.ctype = KGS_TYPE => obs.coord[1].s # << "I" >>

\* the kgs round trip of a move in the column after 'H'
C31_Witness ==
    /\ obs.op = "Move" /\ obs.ctype = KGS_TYPE
    /\ obs.move.x = 8 /\ obs.coord[1].s = << "J" >> /\ obs.back.x = 8

\* ================================================================
\* Pass moves (rules.py, _append / _pop on a move without position)
\* ================================================================
\* a move without position: Move("sgf", (color, '-', '-'))
IsPass(move) == get_coord_sgf(move) = <<45, 45>>

\* The stones offered: two points and the Pass of either colour
PassStones == { <<B, 0, 0>>, <<W, 0, 1>>, <<B, PassCoord, PassCoord>>,
                <<W, PassCoord, PassCoord>> }

\* ---------------------------------------------------------------- SpecPass
\* The calls of Spec, with Pass moves among the moves offered.
PutPass == PutCalls(PassStones, BOOLEAN, MaxHist) /\ obs' = obs

RemovePass == RemoveCalls(PassStones, BOOLEAN) /\ obs' = obs

NextPass == PutPass \/ RemovePass \/ Confirm \/ Reset

SpecPass == Init /\ [][NextPass]_vars

\* what a call starts from, after its optional reset
StartLog(flag) == IF flag THEN deleted ELSE deleted_buff

StartMoves(flag) == IF flag THEN Committed ELSE Buffered

\* C32: an accepted put or remove of a Pass move leaves every cell of the
\* buffer grid as it was, adds (put) or drops (remove) exactly one empty
\* capture entry, and counts as one move in the numbering: the history is
\* one move longer with the Pass at the index of its number (put), one
\* move shorter (remove).
C32_PassTouchesNoCell ==
    [][ (last'.op \in {"put", "remove"} /\ last'.err = NoErr /\ IsPass(last'.move))
        => /\ stones_buff' = StartGrid(last'.reset)
           /\ last'.op = "put"
                 => /\ deleted_buff' = Append(StartLog(last'.reset), <<>>)
                    /\ Len(Buffered') = Len(StartMoves(last'.reset)) + 1
                    /\ last'.move.number <= Len(Buffered')
                    /\ Buffered'[last'.move.number] = last'.move
           /\ last'.op = "remove"
                 => /\ Len(StartLog(last'.reset)) >= 1
                    /\ StartLog(last'.reset)[Len(StartLog(last'.reset))] = <<>>
                    /\ deleted_buff' = Front(StartLog(last'.reset))
                    /\ Len(Buffered') = Len(StartMoves(last'.reset)) - 1 ]_vars

\* ---------------------------------------------------------------- numbering
\* the numbers carried by the moves of a history
Numbers(moves) == [k \in 1 .. Len(moves) |-> moves[k].number]

\* a history without its numbers: the colour and position of each move
Placements(moves) == [k \in 1 .. Len(moves) |-> << moves[k].color, moves[k].x, moves[k].y >>]

\* C33: the move at index i (from 0) of the committed history carries the
\* number i+1; an accepted put(move) with 1 <= move.number <= length+1
\* leaves the move at index move.number-1 of the buffer history, the moves
\* recorded before it kept in their order around it; a put or remove call,
\* accepted or rejected, leaves the numbers of the committed moves as they
\* were.
C33_HistoryNumbering ==
    /\ [](\A k \in 1 .. Len(Committed) : Committed[k].number = k)
    /\ [][ /\ (/\ last'.op = "put" /\ last'.err = NoErr
               /\ last'.move.number <= Len(StartMoves(last'.reset)) + 1)
              => /\ Len(Buffered') = Len(StartMoves(last'.reset)) + 1
                 /\ Buffered'[last'.move.number] = last'.move
                 /\ Placements(ListPop(Buffered', last'.move.number - 1))
                        = Placements(StartMoves(last'.reset))
           /\ last'.op \in {"put", "remove"} => Numbers(Committed') = Numbers(Committed) ]_vars

\* C34: remove(move) fails with a state error (Empty or Wrong Color) and
\* changes nothing whenever the colour and position of the move given
\* differ from those of the move recorded at index move.number-1 of the
\* history, at the tail of the history and in mid-sequence.
C34_MismatchedRemoveRejected ==
    [][ (/\ last'.op = "remove"
         /\ last'.move.number <= Len(StartMoves(last'.reset))
         /\ ~MoveEq(StartMoves(last'.reset)[last'.move.number], last'.move))
        => /\ last'.err \in {"Empty", "Wrong Color."}
           /\ stones' = stones /\ deleted' = deleted /\ Committed' = Committed ]_vars

\* C35: the capture log and the history have the same length, in the
\* buffer after each accepted put or remove and in the committed state
\* after each confirm, and the committed log is the one the committed
\* history gives when it is replayed from the empty board: entry i holds
\* the stones captured by move i, an empty entry for a move that captured
\* nothing.
C35_LogMirrorsHistory ==
    /\ (last.op \in {"put", "remove"} /\ last.err = NoErr)
          => Len(deleted_buff) = Len(history_buff)
    /\ last.op = "confirm"
          => /\ Len(deleted) = Len(history)
             /\ Replay.err = NoErr
             /\ Replay.d = deleted

\* ================================================================
\* _data on any grid (rules.py)
\* ================================================================
\* the grid holding the stones of `colouring`, a function from cells to B / W
GridOf(colouring) ==
    [x \in Rows |-> [y \in Rows |->
        IF <<x, y>> \in DOMAIN colouring THEN colouring[<<x, y>>] ELSE E]]

\* ---------------------------------------------------------------- SpecData
\* stones_buff is any grid of up to MaxDataStones stones; _data is called
\* on an occupied cell of it.  obs records the call and what it returned.
InitData ==
    /\ InitEngine
    /\ \E S \in SUBSET Cells :
          /\ Cardinality(S) <= MaxDataStones
          /\ \E colouring \in [S -> {B, W}] :
                obs = [g |-> GridOf(colouring), op |-> "grid", x |-> 0, y |-> 0,
                       group |-> <<>>, nblibs |-> 0]

\* group, nblibs = self._data(x, y): the grid is read, never assigned
Data ==
    \E p \in Cells, g \in {obs.g} :
        /\ obs.op = "grid"
        /\ g[p[1]][p[2]] # E
        /\ obs' = [obs EXCEPT !.op = "_data", !.x = p[1], !.y = p[2],
                              !.group = data(g, p[1], p[2]).group,
                              !.nblibs = data(g, p[1], p[2]).nblibs]
        /\ UNCHANGED << stones, deleted, history, stones_buff, deleted_buff,
                        history_buff, heap, shared, last, offseq >>

NextData == Data

SpecData == InitData /\ [][NextData]_vars

\* the cells of a sequence
Range(s) == { s[k] : k \in 1 .. Len(s) }

\* C36: on every grid and every occupied seed cell, _data returns exactly
\* the cells of the seed's colour connected to the seed through adjacent
\* cells of the board, each cell once, and the number of distinct empty
\* cells adjacent to that group (a liberty shared by several stones counted
\* once); the grid is left as it was.
C36_DataIsGroupAndLiberties ==
    /\ [](obs.op = "_data"
            => /\ Range(obs.group) = GroupOf(obs.g, <<obs.x, obs.y>>)
               /\ Len(obs.group) = Cardinality(Range(obs.group))
               /\ obs.nblibs = Cardinality(LibertiesOf(obs.g, GroupOf(obs.g, <<obs.x, obs.y>>))))
    /\ [][obs'.g = obs.g]_vars

\* a group of three stones around a liberty that two of them share, next
\* to a stone of the other colour
C36_Witness ==
    /\ obs.op = "_data"
    /\ Len(obs.group) = 3
    /\ \E q \in LibertiesOf(obs.g, Range(obs.group)) :
          Cardinality({ r \in Range(obs.group) : Adjacent(r, q) }) >= 2
    /\ \E q \in Cells : obs.g[q[1]][q[2]] = enemy_of(obs.g[obs.x][obs.y])

\* ================================================================
\* Ko after a removal (rules.py, the Ko test of _append)
\* ================================================================
\* ---------------------------------------------------------------- SpecKoEdit
\* Games played in sequence (put numbered one past the committed history
\* with reset=True, confirm), with up to MaxKoRemoves calls of remove
\* numbered as the last move of the history.
\* obs.prev is the committed grid the last committed move was put on; it is
\* known (obs.has) while that move is the last one put and confirmed;
\* obs.accepted tells that no put or remove was rejected so far.
KoEditStones == { <<W, 1, 0>>, <<B, 0, 0>>, <<B, 2, 0>>, <<B, 2, 2>>, <<B, 1, 1>>,
                  <<W, 0, 1>> }

\* the stone offered to remove, away from the corner: the last move of the
\* history or an earlier one
KoRemoveStones == { <<B, 2, 2>> }

InitKoEdit ==
    InitEngine /\ obs = [prev |-> EmptyGrid, has |-> FALSE, removes |-> 0, accepted |-> TRUE]

PutKoEdit ==
    /\ PlayCalls(KoEditStones, KoEditMaxPlay)
    /\ obs' = [obs EXCEPT !.accepted = @ /\ last'.err = NoErr]

RemoveKoEdit ==
    /\ obs.removes < MaxKoRemoves
    /\ Len(history) >= 1
    /\ \E s \in KoRemoveStones : remove(Mv(s[1], s[2], s[3], Len(history)), TRUE)
    /\ obs' = [obs EXCEPT !.removes = @ + 1, !.accepted = @ /\ last'.err = NoErr]
    /\ offseq' = offseq

ConfirmKoEdit ==
    /\ confirm
    /\ offseq' = offseq
    /\ obs' = IF last.err # NoErr THEN obs
              ELSE IF last.op = "put" THEN [obs EXCEPT !.prev = stones, !.has = TRUE]
              ELSE IF last.op = "remove" THEN [obs EXCEPT !.has = FALSE]
              ELSE obs

NextKoEdit == PutKoEdit \/ RemoveKoEdit \/ ConfirmKoEdit

SpecKoEdit == InitKoEdit /\ [][NextKoEdit]_vars

\* the grid that accepting move m on grid g leaves: the stone placed, the
\* enemy groups it leaves without liberty taken off
After(g, m) ==
    [x \in Rows |-> [y \in Rows |->
        IF <<x, y>> \in Dead(g, m) THEN E ELSE Placed(g, m)[x][y]]]

\* C37: a put on an empty point fails with Ko exactly when accepting it
\* would give again the grid that the previous move was put on; a
\* placement that takes a single stone other than the one the previous
\* move played is never refused with Ko.
C37_KoIffGridRepeats ==
    [][ (/\ last'.op = "put" /\ obs.has
         /\ stones[last'.move.x][last'.move.y] = E)
        => /\ last'.err = "Ko" <=> After(stones, last'.move) = obs.prev
           /\ (/\ Cardinality(Dead(stones, last'.move)) = 1
               /\ Dead(stones, last'.move) #
                     { <<heap[history[Len(history)]].x, heap[history[Len(history)]].y>> })
                 => last'.err # "Ko" ]_vars

\* C38: every group of stones of the committed grid has at least one
\* liberty, whatever accepted put and remove calls (at the tail or in
\* mid-sequence) and confirms led to it.
C38_CommittedGroupsHaveLiberty ==
    obs.accepted
        => \A p \in Cells :
              stones[p[1]][p[2]] # E => LibertiesOf(stones, GroupOf(stones, p)) # {}

\* the number of events `name` among the first k events
CountEvents(events, name, k) == Cardinality({ i \in 1 .. k : events[i][1] = name })

\* C39: a text that parse() accepts has balanced tree delimiters: at every
\* point of the parse the trees closed are no more than the trees opened,
\* and at the end of the text every tree opened has been closed.
C39_AcceptedTextIsBalanced ==
    Accepted
        => /\ \A k \in 1 .. Len(obs.ps.events) :
                 CountEvents(obs.ps.events, "end_gametree", k)
                     <= CountEvents(obs.ps.events, "start_gametree", k)
           /\ CountEvents(obs.ps.events, "end_gametree", Len(obs.ps.events))
                 = CountEvents(obs.ps.events, "start_gametree", Len(obs.ps.events))
\* -------------------------------------------------------------- Controller
\* The rule object of the controller as a value, the calls of one handler
\* being made one after the other on it:
\*   [g, d, h |-> the committed state, gb, db, hb |-> the buffer,
\*    heap, sh |-> as the variables heap and shared,
\*    err |-> the exception that ended the handler, NoErr while it runs].
Engine ==
    [g |-> stones, d |-> deleted, h |-> history,
     gb |-> stones_buff, db |-> deleted_buff, hb |-> history_buff,
     heap |-> heap, sh |-> shared, err |-> NoErr]

\* RuleUnsafe(): the rule object _checkinsert and _check_update replay on
NewEngine ==
    [g |-> EmptyGrid, d |-> <<>>, h |-> <<>>, gb |-> EmptyGrid, db |-> <<>>, hb |-> <<>>,
     heap |-> <<>>, sh |-> FALSE, err |-> NoErr]

\* the buffer a put / remove of the rule object e starts from (StartBuffer)
BufferOf(e, flag) ==
    IF flag
    THEN [g |-> e.g, d |-> e.d, h |-> e.h, heap |-> e.heap, err |-> NoErr, at |-> 0]
    ELSE [g |-> e.gb, d |-> e.db, h |-> e.hb, heap |-> e.heap, err |-> NoErr, at |-> 0]

\* the committed state a call leaves, the buffer lists being the committed
\* lists or not (Finish)
LeftCommitted(e, r, sh) ==
    [e EXCEPT !.g = IF sh THEN r.g ELSE @, !.d = IF sh THEN r.d ELSE @,
              !.h = IF sh THEN r.h ELSE @, !.heap = r.heap, !.err = r.err]

\* the rule object a put / remove leaves, r being the buffer its body ended
\* with (Finish): raisese resets the buffer
LeftBuffer(c, r, sh) ==
    IF r.err \in StateErrors
    THEN [c EXCEPT !.gb = c.g, !.db = c.d, !.hb = c.h, !.sh = FALSE]
    ELSE [c EXCEPT !.gb = r.g, !.db = r.d, !.hb = r.h, !.sh = sh]

\* self.rules.put(move, reset) in a handler: nothing once an exception has
\* ended the handler; None has no number, and the number is asserted
\* positive before anything else
rules_put(e, move, flag) ==
    IF e.err # NoErr THEN e
    ELSE IF move = NoMove THEN [e EXCEPT !.err = "AttributeError"]
    ELSE IF move.number <= 0 THEN [e EXCEPT !.err = "AssertionError"]
    ELSE LeftBuffer(LeftCommitted(e, put_body(BufferOf(e, flag), move), e.sh /\ ~flag),
              put_body(BufferOf(e, flag), move), e.sh /\ ~flag)

\* self.rules.remove(move, reset) in a handler
rules_remove(e, move, flag) ==
    IF e.err # NoErr THEN e
    ELSE IF move = NoMove THEN [e EXCEPT !.err = "AttributeError"]
    ELSE IF move.number <= 0 THEN [e EXCEPT !.err = "AssertionError"]
    ELSE LeftBuffer(LeftCommitted(e, remove_body(BufferOf(e, flag), move), e.sh /\ ~flag),
              remove_body(BufferOf(e, flag), move), e.sh /\ ~flag)

\* self.rules.confirm() in a handler
rules_confirm(e) ==
    IF e.err # NoErr THEN e
    ELSE [e EXCEPT !.g = e.gb, !.d = e.db, !.h = e.hb, !.sh = TRUE]

\* self.rules.reset() in a handler
rules_reset(e) ==
    IF e.err # NoErr THEN e
    ELSE [e EXCEPT !.gb = e.g, !.db = e.d, !.hb = e.h, !.sh = FALSE]

\* Kifu.getmove_at(number): for i in range(number, len(self)), the first
\* node whose move has that number; NoMove for None
RECURSIVE MoveAtFrom(_, _, _)
MoveAtFrom(nodes, nb, i) ==
    IF i >= Len(nodes) THEN NoMove
    ELSE IF nodes[i + 1].mv /\ nodes[i + 1].mn = nb THEN getmove(nodes[i + 1])
    ELSE MoveAtFrom(nodes, nb, i + 1)

getmove_at(nodes, nb) == MoveAtFrom(nodes, nb, nb)

\* The controller besides its rule object:
\*   [nodes |-> the record, current_mn, selected, clickloc |-> a point or
\*    NoPt for None, dragging, down |-> whether the mouse button is held
\*    dragging, down].  The exception that ended the last handler is
\* last.err.
\* A handler maps the rule object and the controller to what it leaves.
Out(e, c) == [e |-> e, c |-> c]

\* ControllerBase.at_last_move
at_last_move(nodes, current_mn) ==
    lastmove(nodes) = NoMove \/ current_mn = lastmove(nodes).number

\* Kifu.append(move) and Kifu.insert(move, position) with the stone of the
\* move on the new node
AppendMove(nodes, move) ==
    WithStone(kifu_append(nodes, Len(nodes) + 1, move.number), Len(nodes) + 1,
              move.color, << move.x, move.y >>)

InsertMove(nodes, move, position) ==
    WithStone(kifu_insert(nodes, Len(nodes) + 1, position), Len(nodes) + 1,
              move.color, << move.x, move.y >>)

\* for nr in range(first, upto + 1): rule.put(self.kifu.getmove_at(nr), reset=False)
RECURSIVE ReplayTo(_, _, _, _)
ReplayTo(e, nodes, nr, upto) ==
    IF nr > upto THEN e
    ELSE ReplayTo(rules_put(e, getmove_at(nodes, nr), FALSE), nodes, nr + 1, upto)

\* the end of _checkinsert, e being the rule object after the put of the
\* move: lastmove() is None on a record without move
CheckLater(e, nodes, current_mn) ==
    IF e.err # NoErr THEN e.err
    ELSE IF lastmove(nodes) = NoMove THEN "AttributeError"
    ELSE ReplayTo(e, nodes, current_mn + 1, lastmove(nodes).number).err

\* ControllerUnsafe._checkinsert(move): NoErr for True, a state error of
\* the try block for False, else the exception that goes through the caller
checkinsert(nodes, current_mn, move) ==
    CheckLater(rules_put(ReplayTo(NewEngine, nodes, 1, current_mn), move, FALSE),
               nodes, current_mn)

\* for i, mv in enumerate(moves): rule.put(mv, reset=False)
RECURSIVE ReplayMoves(_, _, _)
ReplayMoves(e, moves, i) ==
    IF i > Len(moves) THEN e
    ELSE ReplayMoves(rules_put(e, moves[i], FALSE), moves, i + 1)

\* ControllerUnsafe._check_update(move), moves being get_move_seq():
\* moves[move.number - 1] raises IndexError beyond the list (an index of
\* -1 is the last move), a wrong number there returns False
check_update(moves, move) ==
    IF move.number - 1 >= Len(moves) \/ move.number - 1 < -Len(moves) THEN "IndexError"
    ELSE IF moves[IF move.number = 0 THEN Len(moves) ELSE move.number].number # move.number
    THEN "AssertionError"
    ELSE ReplayMoves(NewEngine,
                     [moves EXCEPT ![IF move.number = 0 THEN Len(moves) ELSE move.number] = move],
                     1).err

\* ControllerUnsafe._lclick
lclick(e, c, p) ==
    Out(e, [c EXCEPT !.clickloc = p, !.selected = p, !.down = TRUE])

\* ControllerUnsafe._append after the put of the move left e1
Appended(e1, c, move) ==
    IF e1.err # NoErr THEN Out(e1, c)
    ELSE IF ~at_last_move(c.nodes, c.current_mn)
    THEN Out([e1 EXCEPT !.err = "NotImplementedError"], c)
    ELSE Out(rules_confirm(e1),
             [c EXCEPT !.nodes = AppendMove(c.nodes, move),
                       !.current_mn = @ + 1,
                       !.selected = << move.x, move.y >>])

\* ControllerUnsafe._mouse_release
mouse_release(e, c, p) ==
    IF c.dragging THEN Out(e, [c EXCEPT !.dragging = FALSE, !.down = FALSE])
    ELSE Appended(rules_put(e, Mv(next_color(c.nodes), p[1], p[2], c.current_mn + 1), TRUE),
                  [c EXCEPT !.down = FALSE],
                  Mv(next_color(c.nodes), p[1], p[2], c.current_mn + 1))

\* the try block of _drag, e1 being the rule object after remove and put
Relocated(e1, c, origin, dest) ==
    IF e1.err # NoErr THEN Out(e1, c)
    ELSE Out(rules_confirm(e1),
             [c EXCEPT !.nodes = relocate(c.nodes, origin.color, << origin.x, origin.y >>,
                                          << dest.x, dest.y >>),
                       !.clickloc = << dest.x, dest.y >>])

\* _drag from the origin found in the record on, checked being what
\* _checkinsert(dest) returned
DragFrom(e, c, origin, dest, checked) ==
    IF checked # NoErr THEN Out([e EXCEPT !.err = checked], c)
    ELSE Relocated(rules_put(rules_remove(e, origin, TRUE), dest, FALSE), c, origin, dest)

\* _drag of a stone of the committed grid, origin being the move of the
\* node locate() found at the point clicked
DragStone(e, c, origin, dest) ==
    DragFrom(e, c, origin, dest, checkinsert(c.nodes, c.current_mn, dest))

\* ControllerUnsafe._drag: the colour is read on the committed grid
drag(e, c, p) ==
    IF c.clickloc = p THEN Out(e, c)
    ELSE IF e.g[c.clickloc[1]][c.clickloc[2]] = E THEN Out(e, [c EXCEPT !.dragging = TRUE])
    ELSE IF locate(c.nodes, c.clickloc[1], c.clickloc[2], NoBound) = NoNode
    THEN Out([e EXCEPT !.err = "AttributeError"], [c EXCEPT !.dragging = TRUE])
    ELSE DragStone(e, [c EXCEPT !.dragging = TRUE],
                   getmove(c.nodes[locate(c.nodes, c.clickloc[1], c.clickloc[2], NoBound) + 1]),
                   Mv(e.g[c.clickloc[1]][c.clickloc[2]], p[1], p[2],
                      getmove(c.nodes[locate(c.nodes, c.clickloc[1], c.clickloc[2], NoBound) + 1]).number))

\* _insert after the put of the move left e1: insert in the record,
\* confirm, _incr_move_number, confirm
Inserted(e1, c, move) ==
    IF e1.err # NoErr THEN Out(e1, c)
    ELSE Out(rules_confirm(rules_confirm(e1)),
             [c EXCEPT !.nodes = InsertMove(c.nodes, move, c.current_mn + 1),
                       !.current_mn = @ + 1])

\* _insert of the move, checked being what _checkinsert(move) returned
InsertChecked(e, c, move, checked) ==
    IF checked # NoErr THEN Out([e EXCEPT !.err = checked], c)
    ELSE Inserted(rules_put(e, move, TRUE), c, move)

\* ControllerUnsafe._insert
insert(e, c, p, color) ==
    InsertChecked(e, c, Mv(color, p[1], p[2], c.current_mn + 1),
                  checkinsert(c.nodes, c.current_mn, Mv(color, p[1], p[2], c.current_mn + 1)))

\* the end of _forward, _backward: confirm and _incr_move_number(step)
Stepped(e1, c, step) ==
    IF e1.err # NoErr THEN Out(e1, c)
    ELSE Out(rules_confirm(e1), [c EXCEPT !.current_mn = @ + step])

\* ControllerUnsafe._forward
forward(e, c) ==
    IF at_last_move(c.nodes, c.current_mn) THEN Out(e, c)
    ELSE Stepped(rules_put(e, getmove_at(c.nodes, c.current_mn + 1), TRUE), c, 1)

\* ControllerUnsafe._backward
backward(e, c) ==
    IF ~(0 < c.current_mn) THEN Out(e, c)
    ELSE Stepped(rules_remove(e, getmove_at(c.nodes, c.current_mn), TRUE), c, -1)

\* the selection _del_selected leaves: the last move when the move
\* deleted was the one after it
SelectAfter(nodes, move) ==
    IF lastmove(nodes) # NoMove /\ move.number - 1 = lastmove(nodes).number
    THEN << lastmove(nodes).x, lastmove(nodes).y >>
    ELSE NoPt

\* ControllerBase._delete after the remove of the move left e1, then the
\* end of _del_selected
Deleted(e1, c, move) ==
    IF e1.err # NoErr THEN Out(e1, c)
    ELSE Out(rules_confirm(e1),
             [c EXCEPT !.nodes = kifu_delete(c.nodes, move.number),
                       !.current_mn = @ - 1,
                       !.selected = SelectAfter(kifu_delete(c.nodes, move.number), move)])

\* ControllerUnsafe._del_selected
del_selected(e, c) ==
    IF c.selected = NoPt THEN Out(e, c)
    ELSE IF locate(c.nodes, c.selected[1], c.selected[2], c.current_mn) = NoNode
    THEN Out([e EXCEPT !.err = "AttributeError"], c)
    ELSE Deleted(rules_remove(e, getmove(c.nodes[locate(c.nodes, c.selected[1], c.selected[2],
                                                        c.current_mn) + 1]), TRUE),
                 c, getmove(c.nodes[locate(c.nodes, c.selected[1], c.selected[2],
                                           c.current_mn) + 1]))

\* the loops of _goto: an exception leaves current_mn where the loop was
RECURSIVE GotoLoops(_, _, _)
RECURSIVE GotoStep(_, _, _, _)
GotoStep(e1, c, step, bound) ==
    IF e1.err # NoErr THEN Out(e1, c)
    ELSE GotoLoops(e1, [c EXCEPT !.current_mn = @ + step], bound)

GotoLoops(e, c, bound) ==
    IF c.current_mn < bound
    THEN GotoStep(rules_put(e, getmove_at(c.nodes, c.current_mn + 1), FALSE), c, 1, bound)
    ELSE IF bound < c.current_mn
    THEN GotoStep(rules_remove(e, getmove_at(c.nodes, c.current_mn), FALSE), c, -1, bound)
    ELSE Out(rules_confirm(e), c)

Max(a, b) == IF a < b THEN b ELSE a
Min(a, b) == IF a < b THEN a ELSE b

\* ControllerUnsafe._goto(move_nr), move_nr not None
goto(e, c, move_nr) ==
    IF lastmove(c.nodes) = NoMove THEN Out(e, c)
    ELSE GotoLoops(rules_reset(e), c, Max(0, Min(move_nr, lastmove(c.nodes).number)))

\* swap_color after remove and put left e1: update_mv(move, node)
Swapped(e1, c, move, node) ==
    IF e1.err # NoErr THEN Out(e1, c)
    ELSE Out(rules_confirm(e1),
             [c EXCEPT !.nodes = update_mv(c.nodes, move.color, << move.x, move.y >>,
                                           move.number, node)])

\* swap_color from the node found on, move being its move with the other
\* colour and checked what _check_update(move) returned
SwapAt(e, c, node, move, checked) ==
    IF checked # NoErr THEN Out([e EXCEPT !.err = checked], c)
    ELSE Swapped(rules_put(rules_remove(e, getmove(c.nodes[node + 1]), TRUE), move, FALSE),
                 c, move, node)

\* ControllerUnsafe.swap_color
swap_color(e, c, p) ==
    IF locate(c.nodes, p[1], p[2], c.current_mn) = NoNode THEN Out(e, c)
    ELSE SwapAt(e, c, locate(c.nodes, p[1], p[2], c.current_mn),
                [getmove(c.nodes[locate(c.nodes, p[1], p[2], c.current_mn) + 1])
                    EXCEPT !.color = enemy_of(@)],
                check_update(get_move_seq(c.nodes, 1, 1000),
                             [getmove(c.nodes[locate(c.nodes, p[1], p[2], c.current_mn) + 1])
                                 EXCEPT !.color = enemy_of(@)]))

\* ----------------------------------------------------------------- SpecCtl
\* The controller of a new game (loadkifu(None): a record of one context
\* node, rules.clear(), current_mn 0) driven through its handlers: mouse
\* press, motion and release in the order the mouse produces them, the
\* insert and colour commands of the context menu, the keys for forward,
\* backward, delete and goto.  Records grow to MaxCtlMoves moves; the
\* points offered are the corner and its two neighbours.
CtlPoints == { <<0, 0>>, <<1, 0>>, <<0, 1>> }

CountMoves(nodes) == Cardinality({ i \in 1 .. Len(nodes) : nodes[i].mv })

InitCtl ==
    /\ InitEngine
    /\ obs = [nodes |-> Loaded(<< <<NoPt, NoPt>> >>), current_mn |-> 0, selected |-> NoPt,
              clickloc |-> NoPt, dragging |-> FALSE, down |-> FALSE]

\* Once the rule object and the record differ, the history and the move
\* numbers of the rule object can grow and drift without end: handlers are
\* offered while both histories hold at most MaxCtlMoves moves numbered
\* from 0 to MaxCtlMoves + 1.
CtlBounded ==
    /\ Len(history) <= MaxCtlMoves
    /\ Len(history_buff) <= MaxCtlMoves
    /\ \A k \in 1 .. Len(heap) : heap[k].number \in 0 .. MaxCtlMoves + 1

\* the state a handler leaves; the nodes are identified by their place
Handle(op, out) ==
    /\ CtlBounded
    /\ SetEngine(out.e.g, out.e.d, out.e.h, out.e.gb, out.e.db, out.e.hb,
                 out.e.heap, out.e.sh)
    /\ last' = Call("handler", out.e.err, TRUE, NoMove, 0)
    /\ offseq' = offseq
    /\ obs' = [out.c EXCEPT !.nodes = [i \in 1 .. Len(@) |-> [@[i] EXCEPT !.id = i]]]

LClick ==
    \E p \in CtlPoints, c \in {obs} :
        /\ ~c.down
        /\ Handle("_lclick", lclick(Engine, c, p))

Drag ==
    \E p \in CtlPoints, c \in {obs} :
        /\ c.down
        /\ Handle("_drag", drag(Engine, c, p))

\* the button is released where it was pressed or where the stone was
\* dragged to
MouseRelease ==
    \E c \in {obs} :
        /\ c.down
        /\ c.dragging \/ CountMoves(c.nodes) < MaxCtlMoves
        /\ Handle("_mouse_release", mouse_release(Engine, c, c.clickloc))

Insert ==
    \E p \in CtlPoints, color \in {B, W}, c \in {obs} :
        /\ ~c.down
        /\ CountMoves(c.nodes) < MaxCtlMoves
        /\ Handle("_insert", insert(Engine, c, p, color))

Forward == \E c \in {obs} : ~c.down /\ Handle("_forward", forward(Engine, c))

Backward == \E c \in {obs} : ~c.down /\ Handle("_backward", backward(Engine, c))

DelSelected == \E c \in {obs} : ~c.down /\ Handle("_del_selected", del_selected(Engine, c))

GotoMove ==
    \E move_nr \in 0 .. MaxCtlMoves, c \in {obs} :
        ~c.down /\ Handle("_goto", goto(Engine, c, move_nr))

SwapColor ==
    \E p \in CtlPoints, c \in {obs} :
        ~c.down /\ Handle("swap_color", swap_color(Engine, c, p))

NextCtl ==
    \/ LClick \/ Drag \/ MouseRelease \/ Insert \/ Forward \/ Backward
    \/ DelSelected \/ GotoMove \/ SwapColor

SpecCtl == InitCtl /\ [][NextCtl]_vars

\* the moves of the record numbered 1 .. current_mn, in node order
RecordUpTo(nodes, current_mn) == MovesNumberedIn(nodes, 1, 1, current_mn)

\* C40: after any sequence of handlers of the controller the committed
\* history of the rule object equals, move for move (colour, point and
\* number) and in the same order, the moves of the record numbered
\* 1 .. current_mn.
C40_HistoryIsRecordUpToCurrent ==
    Committed = RecordUpTo(obs.nodes, obs.current_mn)

====
